---- MODULE Spec2Model ----
(***************************************************************************)
(* State-machine model of the STK simulation engine                        *)
(* (src/task1_solution/stk_simulation.py): the DependencyGraph, the        *)
(* STKSimulation registry and scenario store, the five workflow steps of   *)
(* run_simulation and the iterative cycle solver.                          *)
(*                                                                         *)
(* Numbers are fixed-point integers in hundredths (1.00 is 100), the       *)
(* resolution of round(x, 2) in _stabilize_oscillating_values.  A Python   *)
(* value is <<>> for None and <<n>> for the number n.  A dict is a         *)
(* function whose DOMAIN is its key set.  The iteration order of a Python  *)
(* set of strings is fixed within a process but not by the language: it   *)
(* is the parameter ord, a sequence listing all ids.                       *)
(***************************************************************************)
EXTENDS Integers, Sequences, FiniteSets, TLC

VARIABLES
    dependency_graph,   \* STKSimulation.dependency_graph / a DependencyGraph
    gcall,              \* the last DependencyGraph query and what it returned
    user_blocks,        \* the Block objects the caller has constructed, in the order it adds them
    set_order,          \* the iteration order of this process's sets of ids
    blocks,             \* STKSimulation.blocks
    scenario_overrides, \* STKSimulation.scenario_overrides
    pc,                 \* "idle", or the workflow node that runs next
    run_start,          \* the blocks, graph and overrides run_simulation was called on
    state,              \* the SimulationState of the run in progress
    steps,              \* the workflow nodes the run in progress has executed
    detected,           \* what detect_cycles found in the run in progress
    solved,             \* the solver runs of the run in progress
    calls,              \* the user-function calls of the run in progress
    results             \* what run_simulation returned, run by run

(***************************************************************************)
(* Bounds of the model.                                                    *)
(***************************************************************************)
MaxEdges == 5

MaxRuns == 2

MaxOverrides == 1

GNodes == {"n1", "n2", "n3"}

(***************************************************************************)
(* Generic helpers for sequences and dicts.                                *)
(***************************************************************************)
Range(s) == {s[i] : i \in 1..Len(s)}

InSeq(x, s) == \E i \in 1..Len(s) : s[i] = x

\* list.index(x): the first position of x
Index(s, x) == CHOOSE i \in 1..Len(s) : s[i] = x /\ \A j \in 1..(i - 1) : s[j] # x

Perms(S) == {p \in [1..Cardinality(S) -> S] : \A x \in S : \E i \in DOMAIN p : p[i] = x}

\* the elements of the set S in the iteration order ord
InOrder(S, ord) == SelectSeq(ord, LAMBDA x : x \in S)

EmptyDict == [x \in {} |-> {}]

\* defaultdict(set).__getitem__ as a value
Get(m, k) == IF k \in DOMAIN m THEN m[k] ELSE {}

Put(m, k, v) == [x \in DOMAIN m \cup {k} |-> IF x = k THEN v ELSE m[x]]

\* reading m[k] for every k of S on a defaultdict(set) creates the missing keys
Touch(m, S) == [x \in DOMAIN m \cup S |-> IF x \in DOMAIN m THEN m[x] ELSE {}]

(***************************************************************************)
(* DependencyGraph                                                         *)
(***************************************************************************)
NewGraph == [nodes |-> {}, edges |-> EmptyDict, reverse_edges |-> EmptyDict]

add_dependencyForward(g, dependent, dependency) ==
    [nodes |-> g.nodes \cup {dependent, dependency},
     edges |-> Put(g.edges, dependency, Get(g.edges, dependency) \cup {dependent}),
     reverse_edges |-> g.reverse_edges]

add_dependency(g, dependent, dependency) ==
    [nodes |-> g.nodes \cup {dependent, dependency},
     edges |-> Put(g.edges, dependency, Get(g.edges, dependency) \cup {dependent}),
     reverse_edges |-> Put(g.reverse_edges, dependent,
                           Get(g.reverse_edges, dependent) \cup {dependency})]

\* the inner dfs of find_cycles; rec_stack is the set of the nodes of path,
\* st carries the closure variables visited and cycles
RECURSIVE dfs(_, _, _, _, _)
RECURSIVE dfsNeighbors(_, _, _, _, _)
dfsVisitedFirst(g, ord, node, path, st) ==
    IF node \in st.visited THEN st
    ELSE IF InSeq(node, path)
    THEN [st EXCEPT !.cycles =
             Append(@, SubSeq(path, Index(path, node), Len(path)) \o <<node>>)]
    ELSE dfsNeighbors(g, ord, InOrder(Get(g.edges, node), ord), Append(path, node),
                      [st EXCEPT !.visited = @ \cup {node}])

dfsWholePath(g, ord, node, path, st) ==
    IF InSeq(node, path)
    THEN [st EXCEPT !.cycles = Append(@, path \o <<node>>)]
    ELSE IF node \in st.visited THEN st
    ELSE dfsNeighbors(g, ord, InOrder(Get(g.edges, node), ord), Append(path, node),
                      [st EXCEPT !.visited = @ \cup {node}])

dfsUnvisited(g, ord, node, path, st) ==
    IF InSeq(node, path)
    THEN [st EXCEPT !.cycles =
             Append(@, SubSeq(path, Index(path, node), Len(path)) \o <<node>>)]
    ELSE dfsNeighbors(g, ord, InOrder(Get(g.edges, node), ord), Append(path, node),
                      [st EXCEPT !.visited = @ \cup {node}])

dfs(g, ord, node, path, st) ==
    IF InSeq(node, path)
    THEN [st EXCEPT !.cycles =
             Append(@, SubSeq(path, Index(path, node), Len(path)) \o <<node>>)]
    ELSE IF node \in st.visited THEN st
    ELSE dfsNeighbors(g, ord, InOrder(Get(g.edges, node), ord), Append(path, node),
                      [st EXCEPT !.visited = @ \cup {node}])

dfsNeighbors(g, ord, nbrs, path, st) ==
    IF nbrs = <<>> THEN st
    ELSE dfsNeighbors(g, ord, Tail(nbrs), path, dfs(g, ord, Head(nbrs), path, st))

RECURSIVE dfsRoots(_, _, _, _)
dfsRoots(g, ord, roots, st) ==
    IF roots = <<>> THEN st
    ELSE dfsRoots(g, ord, Tail(roots),
                  IF Head(roots) \in st.visited THEN st
                  ELSE dfs(g, ord, Head(roots), <<>>, st))

\* find_cycles: the cycles found, and the graph with the keys its reads created
find_cycles_result(g, st) ==
    [cycles |-> st.cycles, graph |-> [g EXCEPT !.edges = Touch(@, st.visited)]]

find_cycles(g, ord) ==
    find_cycles_result(g, dfsRoots(g, ord, InOrder(g.nodes, ord),
                                   [visited |-> {}, cycles |-> <<>>]))

in_degreeInverted(g) == [v \in g.nodes |-> Cardinality(Get(g.edges, v))]

\* "Count incoming edges": in_degree[v] is the number of nodes u with v in edges[u]
in_degree(g) == [v \in g.nodes |-> Cardinality({u \in g.nodes : v \in Get(g.edges, u)})]

RECURSIVE decrement(_, _, _, _)
\* the inner for loop of the Kahn loop over the dependents of one node
decrement(dependents, deg, queue, g) ==
    IF dependents = <<>> THEN [deg |-> deg, queue |-> queue]
    ELSE LET d == Head(dependents)
             deg1 == [deg EXCEPT ![d] = @ - 1]
         IN  decrement(Tail(dependents), deg1,
                       IF deg1[d] = 0 THEN Append(queue, d) ELSE queue, g)

\* "queue.extend / pop(0)": one turn of the while loop from the decremented state
RECURSIVE kahn(_, _, _, _, _)
kahn_next(g, ord, node, step, result) ==
    kahn(g, ord, step.queue, step.deg, Append(result, node))

kahn(g, ord, queue, deg, result) ==
    IF queue = <<>> THEN result
    ELSE kahn_next(g, ord, Head(queue),
                   decrement(InOrder(Get(g.edges, Head(queue)), ord), deg, Tail(queue), g),
                   result)

\* "queue = deque([node for node in self.nodes if in_degree[node] == 0])"
kahn_start(g, ord, deg) ==
    kahn(g, ord, SelectSeq(InOrder(g.nodes, ord), LAMBDA n : deg[n] = 0), deg, <<>>)

\* "if len(result) != len(self.nodes): raise ValueError"
kahn_result(g, fc, result) ==
    IF Len(result) # Cardinality(g.nodes)
    THEN [ok |-> FALSE, order |-> <<>>, cycles |-> <<>>, graph |-> fc.graph]
    ELSE [ok |-> TRUE, order |-> result, cycles |-> <<>>, graph |-> fc.graph]

sort_checkedKahnOnly(g, ord, fc) == kahn_result(g, fc, kahn_start(g, ord, in_degree(g)))

sort_checked(g, ord, fc) ==
    IF fc.cycles # <<>>
    THEN [ok |-> FALSE, order |-> <<>>, cycles |-> fc.cycles, graph |-> fc.graph]
    ELSE kahn_result(g, fc, kahn_start(g, ord, in_degree(g)))

\* topological_sort: ok with the order, or the ValueError (ok = FALSE)
topological_sort(g, ord) ==
    IF g.nodes = {} THEN [ok |-> TRUE, order |-> <<>>, cycles |-> <<>>, graph |-> g]
    ELSE sort_checked(g, ord, find_cycles(g, ord))

(***************************************************************************)
(* Values, ids and user calculation functions.                             *)
(***************************************************************************)
None == <<>>

Num(n) == <<n>>

IsNone(v) == v = None

\* an id as the string of its characters, for lower() and the "in" tests
Chars(id) ==
    CASE id = "base_cost" -> <<"b", "a", "s", "e", "_", "c", "o", "s", "t">>
      [] id = "selling_price" ->
            <<"s", "e", "l", "l", "i", "n", "g", "_", "p", "r", "i", "c", "e">>
      [] id = "market_demand" ->
            <<"m", "a", "r", "k", "e", "t", "_", "d", "e", "m", "a", "n", "d">>
      [] id = "unknown_id" -> <<"u", "n", "k", "n", "o", "w", "n", "_", "i", "d">>
      [] id = "a" -> <<"a">>
      [] id = "b" -> <<"b">>
      [] id = "price" -> <<"p", "r", "i", "c", "e">>
      [] id = "demand" -> <<"d", "e", "m", "a", "n", "d">>
      [] id = "Unit_Price" -> <<"U", "n", "i", "t", "_", "P", "r", "i", "c", "e">>
      [] id = "price_demand" ->
            <<"p", "r", "i", "c", "e", "_", "d", "e", "m", "a", "n", "d">>
      [] id = "demand_margin" ->
            <<"d", "e", "m", "a", "n", "d", "_", "m", "a", "r", "g", "i", "n">>
      [] id = "Margin" -> <<"M", "a", "r", "g", "i", "n">>
      [] id = "cost" -> <<"c", "o", "s", "t">>
      [] id = "total" -> <<"t", "o", "t", "a", "l">>

\* str.lower() on one character
LowerChar(c) ==
    CASE c = "A" -> "a" [] c = "B" -> "b" [] c = "C" -> "c" [] c = "D" -> "d"
      [] c = "E" -> "e" [] c = "G" -> "g" [] c = "I" -> "i" [] c = "K" -> "k"
      [] c = "L" -> "l" [] c = "M" -> "m" [] c = "N" -> "n" [] c = "O" -> "o"
      [] c = "P" -> "p" [] c = "R" -> "r" [] c = "S" -> "s" [] c = "T" -> "t"
      [] c = "U" -> "u" [] c = "W" -> "w" [] OTHER -> c

Lower(cs) == [i \in 1..Len(cs) |-> LowerChar(cs[i])]

\* sub in cs
Contains(sub, cs) ==
    \E i \in 0..(Len(cs) - Len(sub)) : \A j \in 1..Len(sub) : cs[i + j] = sub[j]

StrPrice == <<"p", "r", "i", "c", "e">>

StrDemand == <<"d", "e", "m", "a", "n", "d">>

StrMargin == <<"m", "a", "r", "g", "i", "n">>

StrSellingPrice == <<"s", "e", "l", "l", "i", "n", "g", "_">> \o StrPrice

StrMarketDemand == <<"m", "a", "r", "k", "e", "t", "_">> \o StrDemand

\* the default of calculate_attributes for an attribute whose calculation raised
DefaultPrice == 5000

DefaultDemand == 100000

DefaultMargin == 2000

DefaultOther == 0

default_valueDemandFirst(id) ==
    IF Contains(StrDemand, Lower(Chars(id))) THEN DefaultDemand
    ELSE IF Contains(StrPrice, Lower(Chars(id))) THEN DefaultPrice
    ELSE IF Contains(StrMargin, Lower(Chars(id))) THEN DefaultMargin
    ELSE DefaultOther

default_value(id) ==
    IF Contains(StrPrice, Lower(Chars(id))) THEN DefaultPrice
    ELSE IF Contains(StrDemand, Lower(Chars(id))) THEN DefaultDemand
    ELSE IF Contains(StrMargin, Lower(Chars(id))) THEN DefaultMargin
    ELSE DefaultOther

\* the seed of _resolve_cycle_iteratively for a cycle attribute without a value
SeedSellingPrice == 5000

SeedMarketDemand == 100000

SeedOther == 10000

seed_value(id) ==
    IF Contains(StrSellingPrice, Lower(Chars(id))) THEN SeedSellingPrice
    ELSE IF Contains(StrMarketDemand, Lower(Chars(id))) THEN SeedMarketDemand
    ELSE SeedOther

\* "Default value for missing dependency" of calculate_attributes
MissingDependencyValue == 0

RECURSIVE SumSeq(_)
SumSeq(s) == IF s = <<>> THEN 0 ELSE Head(s) + SumSeq(Tail(s))

Abs(x) == IF x < 0 THEN 0 - x ELSE x

Returned(v) == [raised |-> FALSE, value |-> v]

Raised == [raised |-> TRUE, value |-> None]

(***************************************************************************)
(* The user calculation functions of the models, written as the ones of    *)
(* the repository are: lambda deps, meta: <arithmetic on deps.get(k, 0)>.  *)
(* d is the dict handed to the function; a key that is absent reads as the *)
(* default 0, a key that holds None makes the arithmetic raise TypeError.  *)
(*   "sum"    sum of the dependencies + 1, kept within -LogicCap..LogicCap *)
(*   "compl"  100 - sum of the dependencies, kept within the same range    *)
(*   "raise"  raises                                                       *)
(*   "none"   returns None                                                 *)
(* and the two functions of demonstrate_cycle_detection (stk_demo.py):     *)
(*   "demo_price"   deps.get("demand", 100) * 0.05 + 40                    *)
(*   "demo_demand"  max(50, 1500 - deps.get("price", 50) * 20)             *)
(***************************************************************************)
LogicCap == 2000 * 100

Clamp(x) == IF x > LogicCap THEN LogicCap ELSE IF x < 0 - LogicCap THEN 0 - LogicCap ELSE x

ReadDeps(deps, d) == [i \in 1..Len(deps) |-> IF deps[i] \in DOMAIN d THEN d[deps[i]] ELSE Num(0)]

\* d.get(key, default): a number in hundredths, or None
DictGet(d, key, default) == IF key \in DOMAIN d THEN d[key] ELSE Num(default)

\* x * 0.05, to the nearest hundredth
Times005(x) == (x * 5 + 50) \div 100

DemoPriceDefaultDemand == 10000

DemoPriceBase == 4000

DemoDemandDefaultPrice == 5000

DemoDemandFloor == 5000

DemoDemandCeiling == 150000

DemoDemandSlope == 20

\* lambda deps, meta: deps.get("demand", 100) * 0.05 + 40
demo_price(d) ==
    IF IsNone(DictGet(d, "demand", DemoPriceDefaultDemand)) THEN Raised
    ELSE Returned(Num(Times005(DictGet(d, "demand", DemoPriceDefaultDemand)[1]) + DemoPriceBase))

\* lambda deps, meta: max(50, 1500 - deps.get("price", 50) * 20)
demo_demand(d) ==
    IF IsNone(DictGet(d, "price", DemoDemandDefaultPrice)) THEN Raised
    ELSE IF DemoDemandCeiling - DictGet(d, "price", DemoDemandDefaultPrice)[1] * DemoDemandSlope
                > DemoDemandFloor
    THEN Returned(Num(DemoDemandCeiling
                          - DictGet(d, "price", DemoDemandDefaultPrice)[1] * DemoDemandSlope))
    ELSE Returned(Num(DemoDemandFloor))

calculation_logic(kind, deps, d) ==
    LET read == ReadDeps(deps, d)
        total == SumSeq([i \in 1..Len(read) |-> IF IsNone(read[i]) THEN 0 ELSE read[i][1]])
    IN  IF kind = "raise" THEN Raised
        ELSE IF kind = "none" THEN Returned(None)
        ELSE IF kind = "demo_price" THEN demo_price(d)
        ELSE IF kind = "demo_demand" THEN demo_demand(d)
        ELSE IF \E i \in 1..Len(read) : IsNone(read[i]) THEN Raised
        ELSE IF kind = "sum" THEN Returned(Num(Clamp(total + 100)))
        ELSE Returned(Num(Clamp(10000 - total)))

(***************************************************************************)
(* Attribute, Block and the registry of STKSimulation.                     *)
(* blocks is the dict STKSimulation.blocks in insertion order; a block's   *)
(* attributes are its dict of attributes in insertion order.               *)
(***************************************************************************)
InputAttr(id, v) ==
    [id |-> id, attribute_type |-> "input", value |-> v, dependencies |-> <<>>,
     calculation_logic |-> "absent"]

CalculatedAttr(id, deps, kind) ==
    [id |-> id, attribute_type |-> "calculated", value |-> None, dependencies |-> deps,
     calculation_logic |-> kind]

NoAttr == [id |-> "", attribute_type |-> "absent", value |-> None, dependencies |-> <<>>,
           calculation_logic |-> "absent"]

RECURSIVE AllAttributes(_)
\* for block in self.blocks.values(): for attr in block.attributes.values()
AllAttributes(bs) ==
    IF bs = <<>> THEN <<>> ELSE Head(bs).attributes \o AllAttributes(Tail(bs))

\* _find_attribute_by_id: the attribute of the first block that holds the id
_find_attribute_by_id(bs, id) ==
    LET all == AllAttributes(bs)
    IN  IF \E i \in 1..Len(all) : all[i].id = id
        THEN all[CHOOSE i \in 1..Len(all) :
                    all[i].id = id /\ \A j \in 1..(i - 1) : all[j].id # id]
        ELSE NoAttr

Found(attr) == attr.attribute_type # "absent"

\* attr.value = v on the attribute _find_attribute_by_id returns
SetValue(bs, id, v) ==
    LET b == CHOOSE i \in 1..Len(bs) :
                 /\ \E k \in 1..Len(bs[i].attributes) : bs[i].attributes[k].id = id
                 /\ \A j \in 1..(i - 1) :
                        \A k \in 1..Len(bs[j].attributes) : bs[j].attributes[k].id # id
        a == CHOOSE k \in 1..Len(bs[b].attributes) :
                 /\ bs[b].attributes[k].id = id
                 /\ \A j \in 1..(k - 1) : bs[b].attributes[j].id # id
    IN  [bs EXCEPT ![b].attributes[a].value = v]

\* the dict {attr.id: attr.value} over the attributes with a value
CurrentValues(bs) ==
    LET all == AllAttributes(bs)
        ids == {all[i].id : i \in {k \in 1..Len(all) : ~IsNone(all[k].value)}}
    IN  [id \in ids |->
            all[CHOOSE i \in 1..Len(all) :
                   /\ all[i].id = id /\ ~IsNone(all[i].value)
                   /\ \A j \in (i + 1)..Len(all) :
                          ~(all[j].id = id /\ ~IsNone(all[j].value))].value]

RECURSIVE add_dependencies(_, _, _, _)
add_dependenciesUnchecked(g, bs, attr, deps) ==
    IF deps = <<>> THEN g
    ELSE add_dependencies(add_dependency(g, attr.id, Head(deps)), bs, attr, Tail(deps))

\* the loop of add_block over the dependencies of one calculated attribute
add_dependencies(g, bs, attr, deps) ==
    IF deps = <<>> THEN g
    ELSE add_dependencies(
             IF Found(_find_attribute_by_id(bs, Head(deps)))
             THEN add_dependency(g, attr.id, Head(deps)) ELSE g,
             bs, attr, Tail(deps))

RECURSIVE add_block_edges(_, _, _)
add_block_edges(g, bs, attrs) ==
    IF attrs = <<>> THEN g
    ELSE add_block_edges(
             IF Head(attrs).attribute_type = "calculated"
             THEN add_dependencies(g, bs, Head(attrs), Head(attrs).dependencies) ELSE g,
             bs, Tail(attrs))

\* self.blocks[block.id] = block
put_block(bs, block) ==
    IF \E i \in 1..Len(bs) : bs[i].id = block.id
    THEN [i \in 1..Len(bs) |-> IF bs[i].id = block.id THEN block ELSE bs[i]]
    ELSE Append(bs, block)

\* add_block: the blocks and the dependency graph afterwards
add_block(bs, g, block) ==
    LET bs1 == put_block(bs, block)
        g1 == [g EXCEPT !.nodes = @ \cup {block.attributes[i].id :
                                             i \in 1..Len(block.attributes)}]
    IN  [blocks |-> bs1, graph |-> add_block_edges(g1, bs1, block.attributes)]

(***************************************************************************)
(* Evaluation of one attribute.  Every call of a user function is logged   *)
(* as [attr, phase, given, raised, value]: given is the part of the dict   *)
(* handed to the function that lies on its declared dependencies.          *)
(***************************************************************************)
Given(deps, d) == [k \in Range(deps) \cap DOMAIN d |-> d[k]]

Logged(attr, phase, d, out) ==
    [attr |-> attr.id, phase |-> phase, given |-> Given(attr.dependencies, d),
     raised |-> out.raised, value |-> out.value]

\* Attribute.calculate(context) of a calculated attribute: the user function gets
\* dep_values = {dep_id: context.get(dep_id)}
dep_valuesEmpty(attr, context) == EmptyDict

dep_values(attr, context) ==
    [k \in Range(attr.dependencies) |-> IF k \in DOMAIN context THEN context[k] ELSE None]

attribute_calculate(attr, context) ==
    IF attr.attribute_type = "input" THEN Returned(attr.value)
    ELSE IF attr.calculation_logic = "absent" THEN Raised
    ELSE calculation_logic(attr.calculation_logic, attr.dependencies,
                           dep_values(attr, context))

(***************************************************************************)
(* calculate_attributes, acyclic branch: the loop over execution_order.    *)
(* w = [blocks, calculated_values, context, calls]                         *)
(***************************************************************************)
missing_deps(attr, context) ==
    {dep \in Range(attr.dependencies) : dep \notin DOMAIN context \/ IsNone(context[dep])}

with_missing_defaults(attr, context) ==
    [k \in DOMAIN context \cup missing_deps(attr, context) |->
        IF k \in DOMAIN context THEN context[k] ELSE Num(MissingDependencyValue)]

\* the try/except around result = attr.calculate(context): out is what calculate did
calculate_store(w, attr, context, out) ==
    LET result == IF out.raised THEN Num(default_value(attr.id)) ELSE out.value
    IN  [blocks |-> IF out.raised THEN w.blocks ELSE SetValue(w.blocks, attr.id, out.value),
         calculated_values |-> Put(w.calculated_values, attr.id, result),
         context |-> Put(context, attr.id, result),
         calls |-> Append(w.calls, Logged(attr, "calculate", dep_values(attr, context), out))]

calculate_found(w, attr) ==
    IF ~Found(attr) THEN w
    ELSE IF attr.attribute_type = "input"
    THEN [w EXCEPT !.calculated_values = Put(@, attr.id, attr.value),
                   !.context = Put(@, attr.id, attr.value)]
    ELSE calculate_store(w, attr, with_missing_defaults(attr, w.context),
                         attribute_calculate(attr, with_missing_defaults(attr, w.context)))

calculate_one(w, attr_id) == calculate_found(w, _find_attribute_by_id(w.blocks, attr_id))

RECURSIVE calculate_in_order(_, _)
calculate_in_order(execution_order, w) ==
    IF execution_order = <<>> THEN w
    ELSE calculate_in_order(Tail(execution_order), calculate_one(w, Head(execution_order)))

(***************************************************************************)
(* _calculate_non_cyclic_dependencies                                      *)
(* w = [blocks, context, calls]                                            *)
(***************************************************************************)
RECURSIVE copy_edges(_, _, _)
\* "Copy edges, excluding cyclic ones": pairs are the <<node, dependent>> of the
\* dependency graph in iteration order
copy_edges(temp, pairs, cycle_set) ==
    IF pairs = <<>> THEN temp
    ELSE copy_edges(
             IF ~(Head(pairs)[1] \in cycle_set /\ Head(pairs)[2] \in cycle_set)
             THEN add_dependency(temp, Head(pairs)[2], Head(pairs)[1]) ELSE temp,
             Tail(pairs), cycle_set)

RECURSIVE EdgePairs(_, _, _)
EdgePairs(g, nodes, ord) ==
    IF nodes = <<>> THEN <<>>
    ELSE LET deps == InOrder(Get(g.edges, Head(nodes)), ord)
         IN  [i \in 1..Len(deps) |-> <<Head(nodes), deps[i]>>] \o EdgePairs(g, Tail(nodes), ord)

temp_graph(g, cycle_set, ord) ==
    copy_edges([NewGraph EXCEPT !.nodes = g.nodes],
               EdgePairs(g, InOrder(g.nodes, ord), ord), cycle_set)

deps_available(attr, cycle_set, context) ==
    \A dep_id \in Range(attr.dependencies) : dep_id \notin cycle_set \/ dep_id \in DOMAIN context

\* the inner try/except around result = attr.calculate(context)
pre_store(w, attr, out) ==
    [w EXCEPT !.blocks = IF out.raised THEN @ ELSE SetValue(@, attr.id, out.value),
              !.context = IF out.raised THEN @ ELSE Put(@, attr.id, out.value),
              !.calls = Append(@, Logged(attr, "pre", dep_values(attr, w.context), out))]

pre_found(w, attr, cycle_set) ==
    IF ~Found(attr) THEN w
    ELSE IF attr.attribute_type = "input"
    THEN [w EXCEPT !.context = Put(@, attr.id, attr.value)]
    ELSE IF attr.calculation_logic = "absent" THEN w
    ELSE IF ~deps_available(attr, cycle_set, w.context) THEN w
    ELSE pre_store(w, attr, attribute_calculate(attr, w.context))

pre_calculate_one(w, attr_id, cycle_set) ==
    IF attr_id \in cycle_set THEN w
    ELSE pre_found(w, _find_attribute_by_id(w.blocks, attr_id), cycle_set)

RECURSIVE pre_calculate_in_order(_, _, _)
pre_calculate_in_order(execution_order, w, cycle_set) ==
    IF execution_order = <<>> THEN w
    ELSE pre_calculate_in_order(Tail(execution_order),
                                pre_calculate_one(w, Head(execution_order), cycle_set),
                                cycle_set)

\* the try block: the ValueError of topological_sort is caught and nothing is calculated
pre_sorted(w, sorted, cycle_set) ==
    IF sorted.ok THEN pre_calculate_in_order(sorted.order, w, cycle_set) ELSE w

\* s = [blocks, graph, calls]; the reads of self.dependency_graph.edges[node]
\* create the missing keys
pre_touched(s, done) ==
    [blocks |-> done.blocks, graph |-> [s.graph EXCEPT !.edges = Touch(@, s.graph.nodes)],
     calls |-> done.calls]

_calculate_non_cyclic_dependencies(s, cycle, ord) ==
    pre_touched(s, pre_sorted([blocks |-> s.blocks, context |-> EmptyDict, calls |-> s.calls],
                              topological_sort(temp_graph(s.graph, Range(cycle), ord), ord),
                              Range(cycle)))

(***************************************************************************)
(* _calculate_post_cycle_dependencies                                      *)
(* w = [blocks, context, calls]                                            *)
(***************************************************************************)
is_post_cycle_dependent(attr, cycle_set) ==
    /\ attr.id \notin cycle_set
    /\ attr.attribute_type = "calculated"
    /\ \E dep_id \in Range(attr.dependencies) : dep_id \in cycle_set

post_store(w, attr, out) ==
    [blocks |-> IF out.raised THEN w.blocks ELSE SetValue(w.blocks, attr.id, out.value),
     context |-> IF out.raised THEN w.context ELSE Put(w.context, attr.id, out.value),
     calls |-> Append(w.calls, Logged(attr, "post", dep_values(attr, w.context), out))]

post_calculate_one(w, attr) ==
    IF attr.calculation_logic = "absent" THEN w
    ELSE post_store(w, attr, attribute_calculate(attr, w.context))

RECURSIVE post_calculate_each(_, _)
post_calculate_each(dependent_attrs, w) ==
    IF dependent_attrs = <<>> THEN w
    ELSE post_calculate_each(Tail(dependent_attrs), post_calculate_one(w, Head(dependent_attrs)))

\* s = [blocks, calls]
_calculate_post_cycle_dependencies(s, cycle) ==
    post_calculate_each(
        SelectSeq(AllAttributes(s.blocks), LAMBDA a : is_post_cycle_dependent(a, Range(cycle))),
        [blocks |-> s.blocks, context |-> CurrentValues(s.blocks), calls |-> s.calls])

(***************************************************************************)
(* _resolve_cycle_iteratively                                              *)
(***************************************************************************)
max_iterations == 10

\* convergence_threshold = 0.05 as the fraction ThresholdNum / ThresholdDen
ThresholdNum == 5

ThresholdDen == 100

\* the 0.1 of _detect_oscillation, in hundredths
OscillationTolerance == 10

\* len(history) >= 4 and history[-4:]
OscillationWindow == 4

\* "elif iteration >= 3"
OscillationCheckFrom == 3

\* "if iteration < 4: return False"
OscillationMinIteration == 4

RECURSIVE seed_cycle(_, _)
seed_cycleEvery(cycle, w) ==
    IF cycle = <<>> THEN w
    ELSE seed_cycle(Tail(cycle),
                    IF Found(_find_attribute_by_id(w.blocks, Head(cycle)))
                    THEN [blocks |-> SetValue(w.blocks, Head(cycle),
                                              Num(seed_value(Head(cycle)))),
                          seeded |-> w.seeded \cup {Head(cycle)}]
                    ELSE w)

\* Step 2: the blocks and the ids seeded
seed_cycle(cycle, w) ==
    IF cycle = <<>> THEN w
    ELSE LET attr == _find_attribute_by_id(w.blocks, Head(cycle))
         IN  seed_cycle(Tail(cycle),
                        IF Found(attr) /\ IsNone(attr.value)
                        THEN [blocks |-> SetValue(w.blocks, Head(cycle),
                                                  Num(seed_value(Head(cycle)))),
                              seeded |-> w.seeded \cup {Head(cycle)}]
                        ELSE w)

\* value_history as the list of its items, in insertion order
HistoryOf(history, id) ==
    IF \E i \in 1..Len(history) : history[i].id = id
    THEN history[CHOOSE i \in 1..Len(history) : history[i].id = id].values
    ELSE <<>>

HistoryAppend(history, id, v) ==
    IF \E i \in 1..Len(history) : history[i].id = id
    THEN [i \in 1..Len(history) |->
             IF history[i].id = id
             THEN [id |-> id, values |-> Append(history[i].values, v)] ELSE history[i]]
    ELSE Append(history, [id |-> id, values |-> <<v>>])

change_exceeds_thresholdTenfold(new, prev) ==
    IF prev = 0 THEN new # 0
    ELSE ThresholdDen * Abs(new - prev) > 10 * ThresholdNum * Abs(prev)

\* change_pct > convergence_threshold, change_pct = |new - prev| / max(|prev|, 1e-6)
change_exceeds_threshold(new, prev) ==
    IF prev = 0 THEN new # 0
    ELSE ThresholdDen * Abs(new - prev) > ThresholdNum * Abs(prev)

\* the try/except in the body of "for attr_id in cycle": out is what the user
\* function did on context; it = [blocks, graph, history, calls, converged, ...]
iterate_store(it, attr, context, out) ==
    IF out.raised
    THEN [it EXCEPT !.calls = Append(@, Logged(attr, "iterate", context, out)),
                    !.converged = FALSE]
    ELSE IF ~IsNone(attr.value) /\ IsNone(out.value)
    THEN \* abs(None - previous) raises TypeError inside the try
         [it EXCEPT !.calls = Append(@, Logged(attr, "iterate", context, out)),
                    !.converged = FALSE,
                    !.history = HistoryAppend(@, attr.id, out.value)]
    ELSE [it EXCEPT
            !.blocks = SetValue(@, attr.id, out.value),
            !.history = HistoryAppend(@, attr.id, out.value),
            !.calls = Append(@, Logged(attr, "iterate", context, out)),
            !.converged = IF ~IsNone(attr.value)
                             /\ change_exceeds_threshold(out.value[1], attr.value[1])
                          THEN FALSE ELSE @]

iterate_foundSkipped(it, attr, context) == it

iterate_found(it, attr, context) ==
    IF ~Found(attr) \/ attr.calculation_logic = "absent" THEN it
    ELSE iterate_store(it, attr, context,
                       calculation_logic(attr.calculation_logic, attr.dependencies, context))

iterate_oneFromStart(it, attr_id, iteration) ==
    iterate_found(it, _find_attribute_by_id(it.blocks, attr_id), it.start)

iterate_one(it, attr_id, iteration) ==
    iterate_found(it, _find_attribute_by_id(it.blocks, attr_id), CurrentValues(it.blocks))

RECURSIVE iterate_cycle(_, _, _)
iterate_cycle(cycle, it, iteration) ==
    IF cycle = <<>> THEN it
    ELSE iterate_cycle(Tail(cycle), iterate_one(it, Head(cycle), iteration), iteration)

LastN(s, n) == IF Len(s) >= n THEN SubSeq(s, Len(s) - n + 1, Len(s)) ELSE s

RECURSIVE scan_oscillation(_)
\* the loop of _detect_oscillation over value_history.items():
\* "true", "false", or "error" for the TypeError of abs() on None
scan_oscillation(history) ==
    IF history = <<>> THEN "false"
    ELSE LET recent == LastN(Head(history).values, OscillationWindow)
         IN  IF Len(Head(history).values) < OscillationWindow
             THEN scan_oscillation(Tail(history))
             ELSE IF IsNone(recent[1]) \/ IsNone(recent[3]) THEN "error"
             ELSE IF ~(Abs(recent[1][1] - recent[3][1]) < OscillationTolerance)
             THEN scan_oscillation(Tail(history))
             ELSE IF IsNone(recent[2]) \/ IsNone(recent[4]) THEN "error"
             ELSE IF Abs(recent[2][1] - recent[4][1]) < OscillationTolerance THEN "true"
             ELSE scan_oscillation(Tail(history))

_detect_oscillationRaises(history, iteration) == "error"

_detect_oscillation(history, iteration) ==
    IF iteration < OscillationMinIteration THEN "false" ELSE scan_oscillation(history)

\* round(x, 2) of the exact quotient total / n, in hundredths: to the nearest,
\* a tie to the even one
RoundDiv(total, n) ==
    LET q == (2 * total + n) \div (2 * n)
    IN  IF (2 * total + n) % (2 * n) = 0 /\ q % 2 = 1 THEN q - 1 ELSE q

RECURSIVE _stabilize_oscillating_values(_, _, _)
_stabilize_oscillating_valuesLast(cycle, history, bs) ==
    IF cycle = <<>> THEN [blocks |-> bs, raised |-> FALSE]
    ELSE IF Len(HistoryOf(history, Head(cycle))) < 2
            \/ ~Found(_find_attribute_by_id(bs, Head(cycle)))
    THEN _stabilize_oscillating_values(Tail(cycle), history, bs)
    ELSE _stabilize_oscillating_values(
             Tail(cycle), history,
             SetValue(bs, Head(cycle),
                      HistoryOf(history, Head(cycle))[Len(HistoryOf(history, Head(cycle)))]))

\* the blocks afterwards and whether sum() raised on a None
_stabilize_oscillating_values(cycle, history, bs) ==
    IF cycle = <<>> THEN [blocks |-> bs, raised |-> FALSE]
    ELSE LET values == HistoryOf(history, Head(cycle))
             recent_values == LastN(values, OscillationWindow)
             numbers == [i \in 1..Len(recent_values) |->
                            IF IsNone(recent_values[i]) THEN 0 ELSE recent_values[i][1]]
         IN  IF Len(values) < 2 \/ ~Found(_find_attribute_by_id(bs, Head(cycle)))
             THEN _stabilize_oscillating_values(Tail(cycle), history, bs)
             ELSE IF \E i \in 1..Len(recent_values) : IsNone(recent_values[i])
             THEN [blocks |-> bs, raised |-> TRUE]
             ELSE _stabilize_oscillating_values(
                      Tail(cycle), history,
                      SetValue(bs, Head(cycle),
                               Num(RoundDiv(SumSeq(numbers), Len(recent_values)))))

RECURSIVE iterate(_, _, _)
\* "self._stabilize_oscillating_values(cycle, value_history); break"
stabilized(done, stab, iteration) ==
    [done EXCEPT !.blocks = stab.blocks,
                 !.stop = IF stab.raised THEN "error" ELSE "oscillation",
                 !.iterations = iteration + 1]

\* "if oscillation_detected": osc is what _detect_oscillation did
after_oscillation_check(cycle, done, iteration, osc) ==
    IF osc = "error" THEN [done EXCEPT !.stop = "error", !.iterations = iteration + 1]
    ELSE IF osc = "true"
    THEN stabilized(done, _stabilize_oscillating_values(cycle, done.history, done.blocks),
                    iteration)
    ELSE iterate(cycle, done, iteration + 1)

\* "if converged: break / elif iteration >= 3": done is the state after the for
\* loop over the cycle
after_iteration(cycle, done, iteration) ==
    IF done.converged
    THEN [done EXCEPT !.stop = "converged", !.iterations = iteration + 1]
    ELSE IF iteration >= OscillationCheckFrom
    THEN after_oscillation_check(cycle, done, iteration,
                                 _detect_oscillation(done.history, iteration))
    ELSE iterate(cycle, done, iteration + 1)

iterateOneMore(cycle, it, iteration) ==
    IF iteration >= max_iterations + 1
    THEN [it EXCEPT !.stop = "exhausted", !.iterations = iteration]
    ELSE after_iteration(cycle, iterate_cycle(cycle, [it EXCEPT !.converged = TRUE], iteration),
                         iteration)

\* Step 3, from iteration on (0-based).  stop is "converged", "oscillation",
\* "exhausted", or "error" when an exception leaves the solver
iterate(cycle, it, iteration) ==
    IF iteration >= max_iterations
    THEN [it EXCEPT !.stop = "exhausted", !.iterations = iteration]
    ELSE after_iteration(cycle, iterate_cycle(cycle, [it EXCEPT !.converged = TRUE], iteration),
                         iteration)

\* the solver state at the start of Step 3; calls_before is the number of the
\* calls of user functions made before Step 3 starts
start_iteration(pre, seeded) ==
    [blocks |-> seeded.blocks, graph |-> pre.graph, history |-> <<>>, calls |-> pre.calls,
     converged |-> TRUE, stop |-> "", iterations |-> 0, seeded |-> seeded.seeded,
     start |-> CurrentValues(seeded.blocks), resolved |-> EmptyDict,
     calls_before |-> Len(pre.calls)]

seed_step(cycle, pre) ==
    start_iteration(pre, seed_cycle(cycle, [blocks |-> pre.blocks, seeded |-> {}]))

post_merge(it, post) ==
    [it EXCEPT !.blocks = post.blocks, !.calls = post.calls,
               !.resolved = CurrentValues(it.blocks)]

\* Step 4, not reached when an exception left Step 3
post_step(cycle, it) ==
    IF it.stop = "error" THEN [it EXCEPT !.resolved = CurrentValues(it.blocks)]
    ELSE post_merge(it, _calculate_post_cycle_dependencies(
                            [blocks |-> it.blocks, calls |-> it.calls], cycle))

\* w = [blocks, graph, calls, solved, raised]: solved is the record of the solver runs
solver_result(w, cycle, it) ==
    [blocks |-> it.blocks, graph |-> it.graph, calls |-> it.calls,
     solved |-> Append(w.solved,
                       [cycle |-> cycle, seeded |-> it.seeded, stop |-> it.stop,
                        iterations |-> it.iterations, history |-> it.history,
                        start |-> it.start, resolved |-> it.resolved,
                        calls_before |-> it.calls_before]),
     raised |-> it.stop = "error"]

_resolve_cycle_iteratively(w, cycle, ord) ==
    solver_result(
        w, cycle,
        post_step(cycle,
                  iterate(cycle,
                          seed_step(cycle,
                                    _calculate_non_cyclic_dependencies(
                                        [blocks |-> w.blocks, graph |-> w.graph,
                                         calls |-> w.calls], cycle, ord)),
                          0)))

RECURSIVE resolve_each(_, _, _)
resolve_eachNone(cycles, w, ord) == w

\* "for cycle in state['cycles_detected']"
resolve_each(cycles, w, ord) ==
    IF cycles = <<>> \/ w.raised THEN w
    ELSE resolve_each(Tail(cycles), _resolve_cycle_iteratively(w, Head(cycles), ord), ord)

\* calculate_attributes: r = [state, blocks, graph, calls]
calculate_cyclic(st, bs, g, cs) ==
    [state |-> [st EXCEPT !.calculated_values = CurrentValues(bs), !.status = "calculated"],
     blocks |-> bs, graph |-> g, calls |-> cs]

calculate_finish(st, sorted, w) ==
    [state |-> [st EXCEPT !.execution_order = sorted.order,
                          !.calculated_values = w.calculated_values,
                          !.status = "calculated"],
     blocks |-> w.blocks, graph |-> sorted.graph, calls |-> w.calls]

calculate_sorted(st, bs, cs, sorted) ==
    IF sorted.ok
    THEN calculate_finish(st, sorted,
                          calculate_in_order(sorted.order,
                                             [blocks |-> bs, calculated_values |-> EmptyDict,
                                              context |-> EmptyDict, calls |-> cs]))
    ELSE [state |-> [st EXCEPT !.error_message = "cycles detected",
                               !.status = "calculation_failed"],
          blocks |-> bs, graph |-> sorted.graph, calls |-> cs]

calculate_attributes(st, bs, g, cs, ord) ==
    IF st.status = "cycles_resolved" THEN calculate_cyclic(st, bs, g, cs)
    ELSE calculate_sorted(st, bs, cs, topological_sort(g, ord))

(***************************************************************************)
(* _apply_cycle_resolution: the strategy break_weakest_dependency discards *)
(* the last dependency of the cycle from both maps; the other strategies   *)
(* leave the graph alone.                                                  *)
(***************************************************************************)
_apply_cycle_resolution(g, cycle, strategy) ==
    IF strategy # "break_weakest_dependency" \/ Len(cycle) < 2 THEN g
    ELSE [g EXCEPT
            !.edges = IF cycle[Len(cycle) - 1] \in DOMAIN @
                      THEN [@ EXCEPT ![cycle[Len(cycle) - 1]] = @ \ {cycle[Len(cycle)]}]
                      ELSE @,
            !.reverse_edges = IF cycle[Len(cycle)] \in DOMAIN @
                              THEN [@ EXCEPT ![cycle[Len(cycle)]] = @ \ {cycle[Len(cycle) - 1]}]
                              ELSE @]

(***************************************************************************)
(* SpecGraph: a DependencyGraph on its own, built by add_dependency and    *)
(* queried by find_cycles and topological_sort.                            *)
(***************************************************************************)
NoCall == [op |-> "none"]

EdgeCount(g) == Cardinality({e \in g.nodes \X g.nodes : e[2] \in Get(g.edges, e[1])})

simvars == <<user_blocks, set_order, blocks, scenario_overrides, pc, run_start, state, steps,
            detected, solved, calls, results>>

GInit ==
    /\ dependency_graph = NewGraph
    /\ gcall = NoCall
    /\ user_blocks = <<>>
    /\ set_order = <<>>
    /\ blocks = <<>>
    /\ scenario_overrides = EmptyDict
    /\ pc = "idle"
    /\ run_start = EmptyDict
    /\ state = EmptyDict
    /\ steps = <<>>
    /\ detected = <<>>
    /\ solved = <<>>
    /\ calls = <<>>
    /\ results = <<>>

GAddDependency ==
    \E dependent \in GNodes, dependency \in GNodes :
        /\ EdgeCount(dependency_graph) < MaxEdges
        /\ dependency_graph' = add_dependency(dependency_graph, dependent, dependency)
        /\ gcall' = NoCall
        /\ UNCHANGED simvars

GFindCycles ==
    \E ord \in Perms(GNodes) :
        LET r == find_cycles(dependency_graph, ord)
        IN  /\ gcall' = [op |-> "find_cycles", before |-> dependency_graph,
                         cycles |-> r.cycles]
            /\ dependency_graph' = r.graph
            /\ UNCHANGED simvars

GTopologicalSort ==
    \E ord \in Perms(GNodes) :
        LET r == topological_sort(dependency_graph, ord)
        IN  /\ gcall' = [op |-> "topological_sort", before |-> dependency_graph,
                         ok |-> r.ok, order |-> r.order, cycles |-> r.cycles]
            /\ dependency_graph' = r.graph
            /\ UNCHANGED simvars

GNext == GAddDependency \/ GFindCycles \/ GTopologicalSort

vars == <<dependency_graph, gcall, user_blocks, set_order, blocks, scenario_overrides, pc,
         run_start, state, steps, detected, solved, calls, results>>

SpecGraph == GInit /\ [][GNext]_vars

(***************************************************************************)
(* Spec: an STKSimulation.  The caller constructs a model, adds its blocks,*)
(* sets and clears scenario overrides and runs the simulation; a run is    *)
(* the sequence of the workflow nodes, one action each.                    *)
(***************************************************************************)
Ids == <<"base_cost", "selling_price", "market_demand">>

InputIds == {"base_cost"}

CalculatedIds == {"selling_price", "market_demand"}

UnknownId == "unknown_id"

AllIds == Ids \o <<UnknownId>>

\* the ids the caller sets overrides for
OverrideIds == <<"base_cost", "selling_price">>

InputValues == {Num(1000), None}

OverrideValues == {Num(700)}

\* the user functions of selling_price and market_demand
LogicProfiles ==
    {[selling_price |-> "sum", market_demand |-> "sum"],
     [selling_price |-> "compl", market_demand |-> "compl"],
     [selling_price |-> "sum", market_demand |-> "compl"],
     [selling_price |-> "raise", market_demand |-> "sum"],
     [selling_price |-> "none", market_demand |-> "sum"]}

\* which attributes go into the first block; the others form the second one
FirstBlocks == {Range(Ids), CalculatedIds}

Reverse(s) == [i \in 1..Len(s) |-> s[Len(s) + 1 - i]]

Orders == {AllIds, Reverse(AllIds)}

Construct(id, input_value, deps, logic) ==
    IF id \in InputIds THEN InputAttr(id, input_value)
    ELSE CalculatedAttr(id, InOrder(deps[id], Ids), logic[id])

ConstructBlock(block_id, members, input_value, deps, logic) ==
    LET ids == InOrder(members, Ids)
    IN  [id |-> block_id,
         attributes |-> [i \in 1..Len(ids) |-> Construct(ids[i], input_value, deps, logic)]]

ConstructModel(first, input_value, deps, logic) ==
    IF first = Range(Ids)
    THEN <<ConstructBlock("block_1", first, input_value, deps, logic)>>
    ELSE <<ConstructBlock("block_1", first, input_value, deps, logic),
           ConstructBlock("block_2", Range(Ids) \ first, input_value, deps, logic)>>

\* initial_state of run_simulation
initial_state ==
    [execution_order |-> <<>>, calculated_values |-> EmptyDict, cycles_detected |-> <<>>,
     status |-> "starting", error_message |-> "", metrics |-> EmptyDict]

\* run_start before the first run
NoRun == [blocks |-> <<>>, graph |-> NewGraph, overrides |-> EmptyDict]

\* the declared dependencies of selling_price and market_demand: any ids of the
\* model, market_demand not on itself
DependencyChoices ==
    {deps \in [CalculatedIds -> SUBSET Range(Ids)] : "market_demand" \notin deps["market_demand"]}

\* the models a caller may construct
Models ==
    {ConstructModel(first, input_value, deps, logic) :
        first \in FirstBlocks, input_value \in InputValues,
        deps \in DependencyChoices,
        logic \in LogicProfiles}

Init ==
    /\ user_blocks \in Models
    /\ set_order \in Orders
    /\ dependency_graph = NewGraph
    /\ gcall = NoCall
    /\ blocks = <<>>
    /\ scenario_overrides = EmptyDict
    /\ pc = "idle"
    /\ run_start = NoRun
    /\ state = initial_state
    /\ steps = <<>>
    /\ detected = <<>>
    /\ solved = <<>>
    /\ calls = <<>>
    /\ results = <<>>

runvars == <<run_start, state, steps, detected, solved, calls, results>>

\* add_block; the caller adds its blocks before the first run
AddBlock ==
    /\ pc = "idle"
    /\ results = <<>>
    /\ Len(blocks) < Len(user_blocks)
    /\ LET added == add_block(blocks, dependency_graph, user_blocks[Len(blocks) + 1])
       IN  /\ blocks' = added.blocks
           /\ dependency_graph' = added.graph
    /\ UNCHANGED <<gcall, user_blocks, set_order, scenario_overrides, pc, runvars>>

\* set_scenario_override
SetScenarioOverride ==
    /\ pc = "idle"
    /\ \E attribute_id \in Range(OverrideIds), value \in OverrideValues :
           /\ Cardinality(DOMAIN scenario_overrides \cup {attribute_id}) <= MaxOverrides
           /\ scenario_overrides' = Put(scenario_overrides, attribute_id, value)
    /\ UNCHANGED <<dependency_graph, gcall, user_blocks, set_order, blocks, pc, runvars>>

\* simulation.scenario_overrides.clear()
ClearScenarioOverrides ==
    /\ pc = "idle"
    /\ scenario_overrides # EmptyDict
    /\ scenario_overrides' = EmptyDict
    /\ UNCHANGED <<dependency_graph, gcall, user_blocks, set_order, blocks, pc, runvars>>

RECURSIVE apply_overrides(_, _, _)
apply_overridesUnknownHitsFirst(bs, overrides, ids) ==
    IF ids = <<>> THEN bs
    ELSE apply_overrides(
             IF Head(ids) \notin DOMAIN overrides THEN bs
             ELSE IF Found(_find_attribute_by_id(bs, Head(ids)))
             THEN SetValue(bs, Head(ids), overrides[Head(ids)])
             ELSE IF AllAttributes(bs) # <<>>
             THEN SetValue(bs, AllAttributes(bs)[1].id, overrides[Head(ids)])
             ELSE bs,
             overrides, Tail(ids))

\* the loop of initialize_simulation over scenario_overrides.items()
apply_overrides(bs, overrides, ids) ==
    IF ids = <<>> THEN bs
    ELSE apply_overrides(
             IF Head(ids) \in DOMAIN overrides /\ Found(_find_attribute_by_id(bs, Head(ids)))
             THEN SetValue(bs, Head(ids), overrides[Head(ids)]) ELSE bs,
             overrides, Tail(ids))

\* run_simulation up to and including the node initialize
Initialize ==
    /\ pc = "idle"
    /\ Len(results) < MaxRuns
    /\ run_start' = [blocks |-> blocks, graph |-> dependency_graph,
                     overrides |-> scenario_overrides]
    /\ blocks' = apply_overrides(blocks, scenario_overrides, OverrideIds)
    /\ state' = [initial_state EXCEPT !.status = "initialized"]
    /\ steps' = <<"initialize">>
    /\ detected' = <<>>
    /\ solved' = <<>>
    /\ calls' = <<>>
    /\ pc' = "detect_cycles"
    /\ UNCHANGED <<dependency_graph, gcall, user_blocks, set_order, scenario_overrides,
                   results>>

route_after_cycle_detectionAlwaysCalculate(st) == "calculate"

route_after_cycle_detection(st) ==
    IF st.cycles_detected # <<>> THEN "resolve_cycles" ELSE "calculate"

DetectCycles ==
    /\ pc = "detect_cycles"
    /\ LET found == find_cycles(dependency_graph, set_order)
           st == [state EXCEPT !.cycles_detected = found.cycles,
                               !.status = IF found.cycles # <<>> THEN "cycles_detected"
                                          ELSE "cycles_clear"]
       IN  /\ state' = st
           /\ detected' = found.cycles
           /\ dependency_graph' = found.graph
           /\ pc' = route_after_cycle_detection(st)
    /\ steps' = Append(steps, "detect_cycles")
    /\ UNCHANGED <<gcall, user_blocks, set_order, blocks, scenario_overrides, run_start,
                   solved, calls, results>>

\* the record run_simulation returns, with the overrides of its run
Compiled(final_state) ==
    [status |-> final_state.status, has_values |-> TRUE,
     calculated_values |-> final_state.calculated_values,
     cycles_resolved |-> Len(initial_state.cycles_detected),
     error_message |-> final_state.error_message,
     overrides |-> run_start.overrides]

\* the record of the except branch of run_simulation
Failed ==
    [status |-> "failed", has_values |-> FALSE, calculated_values |-> EmptyDict,
     cycles_resolved |-> 0, error_message |-> "exception",
     overrides |-> run_start.overrides]

\* the node resolve_cycles, or the except branch of run_simulation when an
\* exception left the solver: w is what the loop over the cycles did
ResolveCyclesDone(w) ==
    /\ blocks' = w.blocks
    /\ dependency_graph' = w.graph
    /\ calls' = w.calls
    /\ solved' = w.solved
    /\ IF w.raised
       THEN /\ pc' = "idle"
            /\ results' = Append(results, Failed)
            /\ state' = state
       ELSE /\ pc' = "calculate"
            /\ results' = results
            /\ state' = [state EXCEPT !.cycles_detected = <<>>, !.status = "cycles_resolved"]

ResolveCycles ==
    /\ pc = "resolve_cycles"
    /\ ResolveCyclesDone(resolve_each(state.cycles_detected,
                                      [blocks |-> blocks, graph |-> dependency_graph,
                                       calls |-> calls, solved |-> <<>>, raised |-> FALSE],
                                      set_order))
    /\ steps' = Append(steps, "resolve_cycles")
    /\ UNCHANGED <<gcall, user_blocks, set_order, scenario_overrides, run_start, detected>>

CalculateDone(r) ==
    /\ state' = r.state
    /\ blocks' = r.blocks
    /\ dependency_graph' = r.graph
    /\ calls' = r.calls

\* the node calculate
Calculate ==
    /\ pc = "calculate"
    /\ CalculateDone(calculate_attributes(state, blocks, dependency_graph, calls, set_order))
    /\ pc' = "validate"
    /\ steps' = Append(steps, "calculate")
    /\ UNCHANGED <<gcall, user_blocks, set_order, scenario_overrides, run_start, detected,
                   solved, results>>

\* "Failed calculations: [...]" carries the ids of failed_calculations
failed_calculations(calculated_values) ==
    {k \in DOMAIN calculated_values : IsNone(calculated_values[k])}

validate_results(st) ==
    LET failed == failed_calculations(st.calculated_values)
        metrics == [total_attributes |-> Cardinality(DOMAIN st.calculated_values),
                    successful_calculations |->
                        Cardinality(DOMAIN st.calculated_values \ failed)]
    IN  IF failed # {}
        THEN [st EXCEPT !.metrics = metrics, !.status = "validation_failed",
                        !.error_message = [failed_calculations |-> failed]]
        ELSE [st EXCEPT !.metrics = metrics, !.status = "completed"]

\* run_simulation as a function of what it is called on: the final state, the
\* blocks, the graph and the calls of the user functions
run_validated(r) == [r EXCEPT !.state = validate_results(r.state)]

run_resolved(st, w, ord) ==
    IF w.raised
    THEN [state |-> [st EXCEPT !.status = "failed"], blocks |-> w.blocks, graph |-> w.graph,
          calls |-> w.calls]
    ELSE run_validated(calculate_attributes(
                           [st EXCEPT !.cycles_detected = <<>>, !.status = "cycles_resolved"],
                           w.blocks, w.graph, w.calls, ord))

run_routed(st, bs, g, ord) ==
    IF route_after_cycle_detection(st) = "resolve_cycles"
    THEN run_resolved(st,
                      resolve_each(st.cycles_detected,
                                   [blocks |-> bs, graph |-> g, calls |-> <<>>,
                                    solved |-> <<>>, raised |-> FALSE], ord),
                      ord)
    ELSE run_validated(calculate_attributes(st, bs, g, <<>>, ord))

run_detected(bs, found, ord) ==
    run_routed([initial_state EXCEPT !.cycles_detected = found.cycles,
                                     !.status = IF found.cycles # <<>> THEN "cycles_detected"
                                                ELSE "cycles_clear"],
               bs, found.graph, ord)

run_simulation(bs, g, overrides, ord) ==
    run_detected(apply_overrides(bs, overrides, OverrideIds), find_cycles(g, ord), ord)

\* the node validate and the return of run_simulation
Validate ==
    /\ pc = "validate"
    /\ state' = validate_results(state)
    /\ results' = Append(results, Compiled(validate_results(state)))
    /\ pc' = "idle"
    /\ steps' = Append(steps, "validate")
    /\ UNCHANGED <<dependency_graph, gcall, user_blocks, set_order, blocks,
                   scenario_overrides, run_start, detected, solved, calls>>

Next ==
    \/ AddBlock
    \/ SetScenarioOverride
    \/ ClearScenarioOverrides
    \/ Initialize
    \/ DetectCycles
    \/ ResolveCycles
    \/ Calculate
    \/ Validate

Spec == Init /\ [][Next]_vars

(***************************************************************************)
(* SpecCases: the same STKSimulation on the models of the repository's     *)
(* demonstration and tests and on models built like them: the degenerate   *)
(* cycle a = 100 - b, b = 100 - a; the price/demand cycle of               *)
(* demonstrate_cycle_detection; attributes whose functions raise, with ids *)
(* of every default kind, without and with a cycle; and two blocks that    *)
(* hold the same attribute id.                                             *)
(***************************************************************************)
CaseAB ==
    <<[id |-> "cycle_ab",
       attributes |-> <<CalculatedAttr("a", <<"b">>, "compl"),
                        CalculatedAttr("b", <<"a">>, "compl")>>]>>

CaseDemo ==
    <<[id |-> "cycle_001",
       attributes |-> <<CalculatedAttr("price", <<"demand">>, "demo_price"),
                        CalculatedAttr("demand", <<"price">>, "demo_demand")>>]>>

RaisingIds == <<"Unit_Price", "price_demand", "demand_margin", "Margin", "cost">>

CaseRaising ==
    <<[id |-> "raising",
       attributes |-> [i \in 1..Len(RaisingIds) |-> CalculatedAttr(RaisingIds[i], <<>>, "raise")]
                      \o <<CalculatedAttr("total", RaisingIds, "sum")>>]>>

CaseRaisingCycle ==
    <<[id |-> "raising_cycle",
       attributes |-> <<CalculatedAttr("Margin", <<"cost">>, "raise"),
                        CalculatedAttr("cost", <<"Margin">>, "sum"),
                        CalculatedAttr("Unit_Price", <<"cost">>, "raise")>>]>>

CaseDuplicate ==
    <<[id |-> "block_1",
       attributes |-> <<InputAttr("base_cost", Num(1000)),
                        CalculatedAttr("selling_price", <<"base_cost">>, "sum")>>],
      [id |-> "block_2",
       attributes |-> <<InputAttr("base_cost", Num(700))>>]>>

\* two cycles, a -> a and b -> b, and cost, which a depends on, outside both
CaseTwoCycles ==
    <<[id |-> "two_cycles",
       attributes |-> <<CalculatedAttr("cost", <<>>, "sum"),
                        CalculatedAttr("a", <<"a", "cost">>, "sum"),
                        CalculatedAttr("b", <<"b">>, "sum")>>]>>

\* the cycle a -> a, cost that depends on a, and total that depends on cost
CaseChain ==
    <<[id |-> "chain",
       attributes |-> <<CalculatedAttr("a", <<"a">>, "sum"),
                        CalculatedAttr("cost", <<"a">>, "sum"),
                        CalculatedAttr("total", <<"cost">>, "sum")>>]>>

\* a cycle of a, whose function raises, and b, which grows at every evaluation
CaseGrowing ==
    <<[id |-> "growing",
       attributes |-> <<CalculatedAttr("a", <<"b">>, "raise"),
                        CalculatedAttr("b", <<"a", "b">>, "sum")>>]>>

\* an Input, the cycle of selling_price and market_demand that reads it, and
\* total, which depends on the cycle
CaseSeeded ==
    <<[id |-> "seeded",
       attributes |-> <<InputAttr("base_cost", Num(1000)),
                        CalculatedAttr("selling_price", <<"market_demand", "base_cost">>, "sum"),
                        CalculatedAttr("market_demand", <<"selling_price">>, "compl"),
                        CalculatedAttr("total", <<"selling_price">>, "sum")>>]>>

\* an Input without a value in the first block, and in the second block a cycle
\* whose calculated attribute has the id of that Input
CaseShadowed ==
    <<[id |-> "block_1",
       attributes |-> <<InputAttr("selling_price", None)>>],
      [id |-> "block_2",
       attributes |-> <<CalculatedAttr("selling_price", <<"market_demand">>, "sum"),
                        CalculatedAttr("market_demand", <<"selling_price">>, "compl")>>]>>

Cases ==
    {CaseAB, CaseDemo, CaseRaising, CaseRaisingCycle, CaseDuplicate, CaseTwoCycles, CaseChain,
     CaseGrowing, CaseSeeded, CaseShadowed}

CaseIds ==
    AllIds \o <<"a", "b", "price", "demand">> \o RaisingIds \o <<"total">>

CaseOrders == {CaseIds, Reverse(CaseIds)}

CasesInit ==
    /\ user_blocks \in Cases
    /\ set_order \in CaseOrders
    /\ dependency_graph = NewGraph
    /\ gcall = NoCall
    /\ blocks = <<>>
    /\ scenario_overrides = EmptyDict
    /\ pc = "idle"
    /\ run_start = NoRun
    /\ state = initial_state
    /\ steps = <<>>
    /\ detected = <<>>
    /\ solved = <<>>
    /\ calls = <<>>
    /\ results = <<>>

SpecCases == CasesInit /\ [][Next]_vars

(***************************************************************************)
(* Graph-theoretic notions used to state the properties.                   *)
(***************************************************************************)
RECURSIVE ReachableFrom(_, _)
ReachableFrom(g, S) ==
    LET next == S \cup UNION {Get(g.edges, n) : n \in S}
    IN  IF next = S THEN S ELSE ReachableFrom(g, next)

HasDirectedCycle(g) == \E n \in g.nodes : n \in ReachableFrom(g, Get(g.edges, n))

(***************************************************************************)
(* Notions of a run used to state the properties: r is LastRun.            *)
(***************************************************************************)
\* HasReturned: run_simulation has returned; LastRun is its record with what it was called on
\* and the calls it made
HasReturned == pc = "idle" /\ results # <<>>

\* the state in which the last run returns: no override set or cleared since
AtReturn == HasReturned /\ scenario_overrides = run_start.overrides

LastRun ==
    [status |-> results[Len(results)].status,
     has_values |-> results[Len(results)].has_values,
     calculated_values |-> results[Len(results)].calculated_values,
     error_message |-> results[Len(results)].error_message,
     run |-> run_start, detected |-> detected, solved |-> solved, calls |-> calls]

RegisteredIds(bs) == {AllAttributes(bs)[i].id : i \in 1..Len(AllAttributes(bs))}

RegisteredOfType(bs, type) ==
    {AllAttributes(bs)[i].id :
        i \in {k \in 1..Len(AllAttributes(bs)) : AllAttributes(bs)[k].attribute_type = type}}

ValueIn(values, id) == IF id \in DOMAIN values THEN values[id] ELSE None

\* the graph of the declared dependencies among the registered attributes
DeclaredGraph(bs) ==
    [nodes |-> RegisteredIds(bs),
     edges |-> [u \in RegisteredIds(bs) |->
                   {v \in RegisteredIds(bs) :
                       u \in Range(_find_attribute_by_id(bs, v).dependencies)}]]

\* each declared dependency is registered no later than the block of its dependent
RegisteredInTime(bs) ==
    \A b \in 1..Len(bs) : \A k \in 1..Len(bs[b].attributes) :
        Range(bs[b].attributes[k].dependencies) \subseteq RegisteredIds(SubSeq(bs, 1, b))

NoCallRaisedOrReturnedNull(r) ==
    \A k \in 1..Len(r.calls) : ~r.calls[k].raised /\ ~IsNone(r.calls[k].value)

\* the attributes as Initialize leaves them
Initialized(r) == apply_overrides(r.run.blocks, r.run.overrides, OverrideIds)

InputsNonNull(bs) ==
    \A id \in RegisteredOfType(bs, "input") : ~IsNone(_find_attribute_by_id(bs, id).value)

AppliedToResults(attr, calculated_values) ==
    calculation_logic(attr.calculation_logic, attr.dependencies,
                      [d \in Range(attr.dependencies) |-> calculated_values[d]])

(***************************************************************************)
(* C1: for every acyclic model in which each declared dependency is        *)
(* registered no later than the block of its dependent and no calculate    *)
(* function raises or returns null, the run returns status "completed" and *)
(* calculated_values has exactly one entry per registered attribute: an    *)
(* Input maps to its current value, a Calculated attribute to its          *)
(* calculate function applied to the calculated_values of its declared     *)
(* dependencies.                                                           *)
(***************************************************************************)
C1_Case(r) ==
    /\ ~HasDirectedCycle(DeclaredGraph(r.run.blocks))
    /\ RegisteredInTime(r.run.blocks)
    /\ NoCallRaisedOrReturnedNull(r)

C1_Outcome(r) ==
    /\ r.status = "completed"
    /\ DOMAIN r.calculated_values = RegisteredIds(r.run.blocks)
    /\ \A id \in RegisteredOfType(r.run.blocks, "input") :
           r.calculated_values[id] = _find_attribute_by_id(Initialized(r), id).value
    /\ \A id \in RegisteredOfType(r.run.blocks, "calculated") :
           AppliedToResults(_find_attribute_by_id(r.run.blocks, id), r.calculated_values)
               = Returned(r.calculated_values[id])

C1_AcyclicRun == (HasReturned /\ C1_Case(LastRun)) => C1_Outcome(LastRun)

(***************************************************************************)
(* C1, amended: the same, for the models in which moreover every           *)
(* registered Input attribute has a non-null current value when the        *)
(* calculation starts.                                                     *)
(***************************************************************************)
C1_AcyclicRunNonNullInputs ==
    (HasReturned /\ C1_Case(LastRun) /\ InputsNonNull(Initialized(LastRun))) => C1_Outcome(LastRun)

C1_Witness ==
    /\ HasReturned
    /\ C1_Case(LastRun)
    /\ InputsNonNull(Initialized(LastRun))
    /\ C1_Outcome(LastRun)
    /\ Cardinality(RegisteredIds(run_start.blocks)) = 3
    /\ Len(calls) = 2
    /\ \E k \in 1..2 : Cardinality(DOMAIN calls[k].given) = 2

(***************************************************************************)
(* C2: on every acyclic graph topological_sort returns an order that holds *)
(* every node exactly once and puts u before v for every edge u -> v       *)
(* (v in edges[u]).                                                        *)
(***************************************************************************)
IsTopologicalOrder(g, order) ==
    /\ Len(order) = Cardinality(g.nodes)
    /\ Range(order) = g.nodes
    /\ \A u \in g.nodes : \A v \in Get(g.edges, u) : Index(order, u) < Index(order, v)

C2_TopologicalOrder ==
    (gcall.op = "topological_sort" /\ ~HasDirectedCycle(gcall.before))
        => (gcall.ok /\ IsTopologicalOrder(gcall.before, gcall.order))

C2_Witness ==
    /\ gcall.op = "topological_sort"
    /\ ~HasDirectedCycle(gcall.before)
    /\ EdgeCount(gcall.before) >= 3
    /\ gcall.ok
    /\ Len(gcall.order) = 3

(***************************************************************************)
(* C3: find_cycles returns a non-empty list exactly when the graph has a   *)
(* directed cycle.                                                         *)
(***************************************************************************)
C3_CyclesIffNotDag ==
    gcall.op = "find_cycles" => ((gcall.cycles # <<>>) <=> HasDirectedCycle(gcall.before))

C3_Witness ==
    /\ gcall.op = "find_cycles"
    /\ HasDirectedCycle(gcall.before)
    /\ EdgeCount(gcall.before) >= 3
    /\ gcall.cycles # <<>>

(***************************************************************************)
(* C4: every run executes the nodes in the order initialize, detect_cycles,*)
(* [resolve_cycles], calculate, validate, each at most once, and a run     *)
(* that returns without an exception has executed them all; resolve_cycles *)
(* is executed if and only if detect_cycles found at least one cycle, and  *)
(* then calculate starts only after the solver has been invoked for every  *)
(* detected cycle.                                                         *)
(***************************************************************************)
StepsWithResolve ==
    <<"initialize", "detect_cycles", "resolve_cycles", "calculate", "validate">>

StepsWithoutResolve == <<"initialize", "detect_cycles", "calculate", "validate">>

IsPrefix(s, t) == Len(s) <= Len(t) /\ \A i \in 1..Len(s) : s[i] = t[i]

C4_StepOrder ==
    /\ IsPrefix(steps, StepsWithResolve) \/ IsPrefix(steps, StepsWithoutResolve)
    /\ Len(steps) >= 3 => (InSeq("resolve_cycles", steps) <=> detected # <<>>)
    /\ (InSeq("resolve_cycles", steps) /\ InSeq("calculate", steps))
           => [k \in 1..Len(solved) |-> solved[k].cycle] = detected
    /\ (pc = "idle" /\ steps # <<>> /\ results[Len(results)].status # "failed")
           => steps \in {StepsWithResolve, StepsWithoutResolve}

C4_Witness ==
    /\ pc = "idle"
    /\ steps = StepsWithResolve
    /\ Len(detected) >= 2
    /\ [k \in 1..Len(solved) |-> solved[k].cycle] = detected
    /\ results[Len(results)].status = "completed"

(***************************************************************************)
(* C5: in both modes a run returns status "completed" only if every        *)
(* registered attribute has a non-null final value; if some registered     *)
(* attribute's final value is null the status is "validation_failed" and   *)
(* error_message names every such attribute.  The final value of an        *)
(* attribute is its entry of calculated_values, null when it has none.     *)
(***************************************************************************)
NullIds(r) ==
    {id \in RegisteredIds(r.run.blocks) : IsNone(ValueIn(r.calculated_values, id))}

C5_CompletedOnlyWithoutNull ==
    (HasReturned /\ LastRun.has_values) =>
        /\ LastRun.status = "completed" => NullIds(LastRun) = {}
        /\ NullIds(LastRun) # {} =>
               /\ LastRun.status = "validation_failed"
               /\ LastRun.error_message = [failed_calculations |-> NullIds(LastRun)]

(***************************************************************************)
(* C6: for any model and any fixed set of overrides, two successive runs   *)
(* with no change in between return the same calculated_values.            *)
(***************************************************************************)
C6_SuccessiveRunsAgree ==
    \A i \in 1..(Len(results) - 1) :
        (/\ results[i].has_values
         /\ results[i + 1].has_values
         /\ results[i + 1].overrides = results[i].overrides)
            => results[i + 1].calculated_values = results[i].calculated_values

(***************************************************************************)
(* C7: the effect of a scenario override does not outlast its clearing: if *)
(* a run is made with an override on Input attribute a, the overrides are  *)
(* then cleared and run is called again, the second run's                  *)
(* calculated_values[a] is the value a was constructed with, and the       *)
(* second result is that of a model that never had the override.           *)
(***************************************************************************)
RECURSIVE add_blocks(_, _, _)
\* the caller's add_block calls on a new STKSimulation
add_blocks(bs, g, todo) ==
    IF todo = <<>> THEN [blocks |-> bs, graph |-> g]
    ELSE add_blocks(add_block(bs, g, Head(todo)).blocks, add_block(bs, g, Head(todo)).graph,
                    Tail(todo))

RECURSIVE run_times(_, _, _, _)
\* what the n-th of n runs without overrides returns
run_times(bs, g, ord, n) ==
    IF n <= 1 THEN run_simulation(bs, g, EmptyDict, ord)
    ELSE run_times(run_simulation(bs, g, EmptyDict, ord).blocks,
                   run_simulation(bs, g, EmptyDict, ord).graph, ord, n - 1)

\* the n-th run of the same model when it never has an override
NeverOverridden(registered, n) ==
    run_times(add_blocks(<<>>, NewGraph, SubSeq(user_blocks, 1, registered)).blocks,
              add_blocks(<<>>, NewGraph, SubSeq(user_blocks, 1, registered)).graph,
              set_order, n)

C7_Case(i, a) ==
    /\ a \in DOMAIN results[i].overrides
    /\ a \in RegisteredOfType(blocks, "input")
    /\ \A j \in 1..(i - 1) : results[j].overrides = EmptyDict
    /\ results[i + 1].overrides = EmptyDict
    /\ results[i + 1].has_values

C7_ClearedOverrideLeavesNoTrace ==
    \A i \in 1..(Len(results) - 1) : \A a \in InputIds :
        C7_Case(i, a) =>
            /\ ValueIn(results[i + 1].calculated_values, a)
                   = _find_attribute_by_id(user_blocks, a).value
            /\ results[i + 1].calculated_values
                   = NeverOverridden(Len(blocks), i + 1).state.calculated_values

(***************************************************************************)
(* C8: for every run that returns values and every override (id, v) whose  *)
(* id is a registered Input attribute and whose v is non-null,             *)
(* calculated_values[id] = v and every attribute computed from that Input  *)
(* is computed from v: each call of the calculate function of an attribute *)
(* that declares id as a dependency receives v for id.                     *)
(***************************************************************************)
DeclaresDependency(r, k, id) ==
    id \in Range(_find_attribute_by_id(r.run.blocks, r.calls[k].attr).dependencies)

C8_Outcome(r, id) ==
    /\ ValueIn(r.calculated_values, id) = r.run.overrides[id]
    /\ \A k \in 1..Len(r.calls) :
           DeclaresDependency(r, k, id) => ValueIn(r.calls[k].given, id) = r.run.overrides[id]

C8_InputOverrideIsUsed ==
    (HasReturned /\ LastRun.has_values) =>
        \A id \in DOMAIN run_start.overrides \cap RegisteredOfType(run_start.blocks, "input") :
            ~IsNone(run_start.overrides[id]) => C8_Outcome(LastRun, id)

(***************************************************************************)
(* C9: Initialize assigns override values only to Input attributes: the    *)
(* value of a Calculated attribute named in the override map is left       *)
(* unchanged by Initialize, and the run's calculated_values are those of   *)
(* the run without that override.                                          *)
(***************************************************************************)
CalculatedOverridden(run) ==
    DOMAIN run.overrides \cap RegisteredOfType(run.blocks, "calculated")

WithoutOverridesOn(overrides, S) == [id \in DOMAIN overrides \ S |-> overrides[id]]

C9_InitializeLeavesCalculated ==
    pc = "detect_cycles" =>
        \A id \in CalculatedOverridden(run_start) :
            _find_attribute_by_id(blocks, id).value
                = _find_attribute_by_id(run_start.blocks, id).value

C9_SameAsWithoutOverride(r) ==
    r.calculated_values
        = run_simulation(r.run.blocks, r.run.graph,
                         WithoutOverridesOn(r.run.overrides, CalculatedOverridden(r.run)),
                         set_order).state.calculated_values

C9_OverridesOnlyOnInputs ==
    /\ C9_InitializeLeavesCalculated
    /\ (HasReturned /\ LastRun.has_values /\ CalculatedOverridden(run_start) # {})
           => C9_SameAsWithoutOverride(LastRun)

(***************************************************************************)
(* C10: for every model whose dependency graph contains a cycle and whose  *)
(* calculate functions return numbers, the run ends with status            *)
(* "completed" and calculated_values holds a non-null value for every      *)
(* attribute on a cycle.                                                   *)
(***************************************************************************)
ReturnsNumbers(bs) ==
    \A id \in RegisteredOfType(bs, "calculated") :
        _find_attribute_by_id(bs, id).calculation_logic \in {"sum", "compl"}

OnCycle(g) == {n \in g.nodes : n \in ReachableFrom(g, Get(g.edges, n))}

C10_Case(r) == HasDirectedCycle(r.run.graph) /\ ReturnsNumbers(r.run.blocks)

C10_Outcome(r) ==
    /\ r.status = "completed"
    /\ \A n \in OnCycle(r.run.graph) : ~IsNone(ValueIn(r.calculated_values, n))

C10_CyclicRunCompletes == (HasReturned /\ C10_Case(LastRun)) => C10_Outcome(LastRun)

C10_Witness ==
    /\ HasReturned
    /\ C10_Case(LastRun)
    /\ C10_Outcome(LastRun)
    /\ Cardinality(OnCycle(run_start.graph)) = 2
    /\ \E k \in 1..Len(solved) : solved[k].stop = "oscillation"

(***************************************************************************)
(* C11: for the cycle a = 100 - b, b = 100 - a with both values initially  *)
(* null, the solver stops by declaring oscillation no later than its 4th   *)
(* iteration and sets a and b to the mean of the two values each           *)
(* oscillates between; it neither stops by convergence nor runs all 10     *)
(* iterations.                                                             *)
(***************************************************************************)
\* run_simulation has returned from its first run, on the blocks of model
FirstRunOn(model) == HasReturned /\ Len(results) = 1 /\ run_start.blocks = model

\* the mean of the last two values of a history of numbers
MeanOfLastTwo(h) == RoundDiv(h[Len(h)][1] + h[Len(h) - 1][1], 2)

C11_OscillationFallback ==
    FirstRunOn(CaseAB) =>
        /\ Len(solved) = 1
        /\ solved[1].stop = "oscillation"
        /\ solved[1].iterations <= 4
        /\ \A id \in {"a", "b"} :
               /\ Len(HistoryOf(solved[1].history, id)) >= 2
               /\ ValueIn(LastRun.calculated_values, id)
                      = Num(MeanOfLastTwo(HistoryOf(solved[1].history, id)))

(***************************************************************************)
(* C12: for the cycle price = demand * 0.05 + 40,                          *)
(* demand = max(50, 1500 - price * 20) with both values initially null,    *)
(* the solver starts from the seeds 50.0 for price and 1000 for demand and *)
(* stops by the convergence test: the last evaluation of price and of      *)
(* demand each changed the value by at most 5% of its previous value, and  *)
(* the run is completed.                                                   *)
(***************************************************************************)
\* the last value of h differs from the one before it (from start when h has one
\* value) by at most 5% of that one
LastChangeWithin5Percent(h, start) ==
    /\ h # <<>>
    /\ LET new == h[Len(h)][1]
           prev == IF Len(h) >= 2 THEN h[Len(h) - 1][1] ELSE start[1]
       IN  100 * Abs(new - prev) <= 5 * Abs(prev)

C12_DemoCycleConverges ==
    FirstRunOn(CaseDemo) =>
        /\ Len(solved) = 1
        /\ ValueIn(solved[1].start, "price") = Num(5000)
        /\ ValueIn(solved[1].start, "demand") = Num(100000)
        /\ solved[1].stop = "converged"
        /\ \A id \in {"price", "demand"} :
               LastChangeWithin5Percent(HistoryOf(solved[1].history, id),
                                        ValueIn(solved[1].start, id))
        /\ LastRun.status = "completed"

(***************************************************************************)
(* C13: after the solver stops by convergence, every cycle attribute that  *)
(* was seeded holds a value returned by its own calculate function: it has *)
(* been evaluated since seeding and is not left with the untouched seed.   *)
(***************************************************************************)
\* the user function of id returned v in an iteration of the solver
ReturnedInIteration(id, v) ==
    \E k \in 1..Len(calls) :
        calls[k].attr = id /\ calls[k].phase = "iterate" /\ ~calls[k].raised /\ calls[k].value = v

\* s is a record of solved: id holds the last value its function returned
HoldsOwnResult(s, id) ==
    /\ HistoryOf(s.history, id) # <<>>
    /\ ~IsNone(ValueIn(s.resolved, id))
    /\ ValueIn(s.resolved, id) = HistoryOf(s.history, id)[Len(HistoryOf(s.history, id))]
    /\ ReturnedInIteration(id, ValueIn(s.resolved, id))

ExpectedDefault(id) ==
    CASE id \in {"selling_price", "price", "Unit_Price", "price_demand"} -> 5000
      [] id \in {"market_demand", "demand", "demand_margin"} -> 100000
      [] id = "Margin" -> 2000
      [] OTHER -> 0

\* the run took the acyclic branch of calculate_attributes and returned values
AcyclicPassReturned == HasReturned /\ LastRun.has_values /\ detected = <<>>

C14_RaisedGetsDefault(k) ==
    /\ ValueIn(LastRun.calculated_values, calls[k].attr) = Num(ExpectedDefault(calls[k].attr))
    /\ \A j \in (k + 1)..Len(calls) :
           calls[k].attr \in Range(_find_attribute_by_id(run_start.blocks, calls[j].attr).dependencies)
               => ValueIn(calls[j].given, calls[k].attr) = Num(ExpectedDefault(calls[k].attr))

C14_AcyclicDefaults ==
    AcyclicPassReturned =>
        /\ DOMAIN LastRun.calculated_values = RegisteredIds(run_start.blocks)
        /\ \A k \in 1..Len(calls) :
               (calls[k].phase = "calculate" /\ calls[k].raised) => C14_RaisedGetsDefault(k)

C14_Witness ==
    /\ AcyclicPassReturned
    /\ run_start.blocks = CaseRaising
    /\ Len(calls) = 6
    /\ \A k \in 1..5 : calls[k].raised /\ C14_RaisedGetsDefault(k)
    /\ calls[6].attr = "total" /\ ~calls[6].raised
    /\ calls[6].given = [id \in Range(RaisingIds) |-> Num(ExpectedDefault(id))]
    /\ LastRun.calculated_values
           = [id \in Range(RaisingIds) \cup {"total"} |->
                 IF id = "total" THEN Num(112100) ELSE Num(ExpectedDefault(id))]

(***************************************************************************)
(* C15: when a user calculate function raises while the cycle solver       *)
(* evaluates an attribute (pre-cycle step, iteration or post-cycle step),  *)
(* the attribute's value in the run's calculated_values is the kind-based  *)
(* default for its id, as in the acyclic pass.                             *)
(***************************************************************************)
\* the run went through the cycle solver and returned values
CyclicPassReturned == HasReturned /\ LastRun.has_values /\ detected # <<>>

\* the solver evaluated id and its function raised every time
RaisedInSolver(id) ==
    /\ \E k \in 1..Len(calls) : calls[k].attr = id
    /\ \A k \in 1..Len(calls) :
           calls[k].attr = id => calls[k].phase \in {"pre", "iterate", "post"} /\ calls[k].raised

C15_SolverDefaults ==
    CyclicPassReturned =>
        \A id \in RegisteredIds(run_start.blocks) :
            RaisedInSolver(id) => ValueIn(LastRun.calculated_values, id) = Num(ExpectedDefault(id))

(***************************************************************************)
(* C16: for every model, acyclic or cyclic, and every subset of attributes *)
(* whose calculate function raises, the run still executes Calculate and   *)
(* Validate and returns a record whose status is 'completed' or            *)
(* 'validation_failed', never 'failed'.                                    *)
(***************************************************************************)
\* every calculate function of bs returns a number or raises
ReturnsNumbersOrRaises(bs) ==
    \A i \in 1..Len(AllAttributes(bs)) : AllAttributes(bs)[i].calculation_logic # "none"

C16_RaisingIsRecoverable ==
    (HasReturned /\ ReturnsNumbersOrRaises(run_start.blocks)) =>
        /\ LastRun.status \in {"completed", "validation_failed"}
        /\ InSeq("calculate", steps) /\ InSeq("validate", steps)

C16_Witness ==
    /\ HasReturned
    /\ ReturnsNumbersOrRaises(run_start.blocks)
    /\ detected # <<>>
    /\ \E k \in 1..Len(calls) : calls[k].raised /\ calls[k].phase = "iterate"
    /\ \E k \in 1..Len(calls) : calls[k].raised /\ calls[k].phase = "post"
    /\ LastRun.status = "completed"
    /\ steps = StepsWithResolve

(***************************************************************************)
(* C17: in the acyclic Calculate pass, whenever a Calculated attribute is  *)
(* evaluated and one of its declared dependencies has no non-null value    *)
(* among the values computed so far (unregistered, not computed yet, or    *)
(* published as null), the calculate function receives 0 for that          *)
(* dependency and the run is not aborted.                                  *)
(***************************************************************************)
\* the acyclic pass evaluated dep before x
EvaluatedBefore(dep, x) ==
    \E i \in 1..Len(state.execution_order) :
        /\ state.execution_order[i] = x
        /\ \E j \in 1..(i - 1) : state.execution_order[j] = dep

\* dep has a non-null value among the values computed when x is evaluated
HasValueBefore(dep, x) ==
    /\ EvaluatedBefore(dep, x)
    /\ dep \in RegisteredIds(run_start.blocks)
    /\ ~IsNone(ValueIn(LastRun.calculated_values, dep))

ReceivedZero(k, dep) == dep \in DOMAIN calls[k].given /\ calls[k].given[dep] = Num(0)

C17_MissingDependencyIsZero ==
    AcyclicPassReturned =>
        /\ LastRun.status \in {"completed", "validation_failed"}
        /\ \A k \in 1..Len(calls) :
               \A dep \in Range(_find_attribute_by_id(run_start.blocks, calls[k].attr).dependencies) :
                   (calls[k].phase = "calculate" /\ ~HasValueBefore(dep, calls[k].attr))
                       => ReceivedZero(k, dep)

(***************************************************************************)
(* C18: in a model with a cycle, whenever an attribute with an             *)
(* unregistered declared dependency is evaluated by the cycle solver       *)
(* (pre-cycle step, iteration or post-cycle step), its calculate function  *)
(* receives the value 0 for that dependency id, as in the acyclic pass.    *)
(***************************************************************************)
C18_UnregisteredIsZeroInSolver ==
    CyclicPassReturned =>
        \A k \in 1..Len(calls) :
            \A dep \in Range(_find_attribute_by_id(run_start.blocks, calls[k].attr).dependencies) :
                (calls[k].phase \in {"pre", "iterate", "post"}
                     /\ dep \notin RegisteredIds(run_start.blocks))
                    => ReceivedZero(k, dep)

(***************************************************************************)
(* C19: add_block of a block that contains an attribute id already         *)
(* registered in a previously added block fails and leaves the registered  *)
(* blocks and the dependency graph unchanged, so that at all times every   *)
(* attribute id is owned by at most one registered block.                  *)
(***************************************************************************)
\* the registered blocks that hold an attribute with this id
OwnersOf(bs, id) ==
    {i \in 1..Len(bs) : \E k \in 1..Len(bs[i].attributes) : bs[i].attributes[k].id = id}

C19_UniqueOwner == \A id \in RegisteredIds(blocks) : Cardinality(OwnersOf(blocks, id)) <= 1

(***************************************************************************)
(* C20: the cycles_resolved field of the record returned by a run equals   *)
(* the number of cycles DetectCycles found in that run: 0 for an acyclic   *)
(* model and at least 1 for a model containing a cycle.                    *)
(***************************************************************************)
C20_CyclesResolvedIsDetectedCount ==
    (HasReturned /\ LastRun.has_values) =>
        /\ results[Len(results)].cycles_resolved = Len(detected)
        /\ HasDirectedCycle(run_start.graph) => results[Len(results)].cycles_resolved >= 1
        /\ ~HasDirectedCycle(run_start.graph) => results[Len(results)].cycles_resolved = 0

(***************************************************************************)
(* C21: find_cycles returns every simple directed cycle of the graph: for  *)
(* each simple cycle some returned list enumerates exactly its nodes along *)
(* its edges, up to rotation.                                              *)
(***************************************************************************)
SimpleCycles(g) ==
    {c \in UNION {[1..n -> g.nodes] : n \in 1..Cardinality(g.nodes)} :
        /\ \A i, j \in DOMAIN c : c[i] = c[j] => i = j
        /\ \A i \in DOMAIN c : c[(i % Len(c)) + 1] \in Get(g.edges, c[i])}

Enumerates(returned, c) ==
    /\ Len(returned) = Len(c) + 1
    /\ returned[Len(returned)] = returned[1]
    /\ \E k \in 0..(Len(c) - 1) :
           \A i \in 1..Len(c) : returned[i] = c[((i + k - 1) % Len(c)) + 1]

C21_EverySimpleCycleReturned ==
    gcall.op = "find_cycles"
        => \A c \in SimpleCycles(gcall.before) :
               \E i \in DOMAIN gcall.cycles : Enumerates(gcall.cycles[i], c)

(***************************************************************************)
(* C22: every list returned by find_cycles is a closed walk along forward  *)
(* edges: it has at least two elements, its last element equals its first, *)
(* and each consecutive pair (x, y) has y in edges[x].                     *)
(***************************************************************************)
IsClosedWalk(g, c) ==
    /\ Len(c) >= 2
    /\ c[Len(c)] = c[1]
    /\ \A j \in 1..(Len(c) - 1) : c[j + 1] \in Get(g.edges, c[j])

C22_ReturnedListsAreClosedWalks ==
    gcall.op = "find_cycles"
        => \A i \in DOMAIN gcall.cycles : IsClosedWalk(gcall.before, gcall.cycles[i])

C22_Witness ==
    /\ gcall.op = "find_cycles"
    /\ Len(gcall.cycles) >= 2
    /\ \E i \in DOMAIN gcall.cycles : Len(gcall.cycles[i]) = 4
    /\ \E i \in DOMAIN gcall.cycles : Len(gcall.cycles[i]) = 2
    /\ \A i \in DOMAIN gcall.cycles : IsClosedWalk(gcall.before, gcall.cycles[i])

(***************************************************************************)
(* C23: topological_sort returns an ordering if and only if the graph is   *)
(* acyclic; on a graph with a cycle it fails with the error that carries   *)
(* the detected cycles and returns no ordering, not even a partial one.    *)
(***************************************************************************)
C23_OrderIffAcyclic ==
    gcall.op = "topological_sort"
        => /\ gcall.ok <=> ~HasDirectedCycle(gcall.before)
           /\ gcall.ok => (Range(gcall.order) = gcall.before.nodes /\ gcall.cycles = <<>>)
           /\ ~gcall.ok
                => /\ gcall.order = <<>>
                   /\ gcall.cycles # <<>>
                   /\ \E ord \in Perms(GNodes) :
                          gcall.cycles = find_cycles(gcall.before, ord).cycles

C23_Witness ==
    /\ gcall.op = "topological_sort"
    /\ HasDirectedCycle(gcall.before)
    /\ Cardinality(gcall.before.nodes) = 3
    /\ \E n \in gcall.before.nodes : Get(gcall.before.reverse_edges, n) = {}
    /\ ~gcall.ok
    /\ gcall.order = <<>>
    /\ gcall.cycles # <<>>

(***************************************************************************)
(* C24: a scenario override whose id matches no registered attribute is    *)
(* ignored: the status, the calculated_values and the value of every       *)
(* attribute are those of the same run without that override.              *)
(***************************************************************************)
UnknownOverridden(run) == DOMAIN run.overrides \ RegisteredIds(run.blocks)

C24_Reference(run) ==
    run_simulation(run.blocks, run.graph,
                   WithoutOverridesOn(run.overrides, UnknownOverridden(run)), set_order)

C24_UnknownOverrideIsIgnored ==
    (AtReturn /\ UnknownOverridden(run_start) # {}) =>
        LET reference == C24_Reference(run_start)
        IN  /\ LastRun.status = reference.state.status
            /\ LastRun.has_values =>
                   LastRun.calculated_values = reference.state.calculated_values
            /\ RegisteredIds(blocks) = RegisteredIds(run_start.blocks)
            /\ CurrentValues(blocks) = CurrentValues(reference.blocks)

C24_Witness ==
    /\ HasReturned
    /\ UnknownOverridden(run_start) # {}
    /\ RegisteredIds(run_start.blocks) = CalculatedIds
    /\ LastRun.status = "completed"
    /\ DOMAIN LastRun.calculated_values = CalculatedIds
    /\ \A id \in CalculatedIds : ~IsNone(_find_attribute_by_id(blocks, id).value)

(***************************************************************************)
(* C25: for every cycle C handed to the solver, also when the model has    *)
(* more than one cycle, every non-cyclic ancestor of C (a Calculated       *)
(* attribute outside C from which C is reachable along the edges) has been *)
(* evaluated before the first iteration over C starts.  An ancestor is     *)
(* taken to be on no cycle at all.                                         *)
(***************************************************************************)
NonCyclicAncestors(run, cycle) ==
    {x \in RegisteredOfType(run.blocks, "calculated") \ OnCycle(run.graph) :
        Range(cycle) \cap ReachableFrom(run.graph, {x}) # {}}

C25_AncestorsEvaluatedBeforeIterating ==
    HasReturned =>
        \A k \in 1..Len(solved) :
            \A x \in NonCyclicAncestors(run_start, solved[k].cycle) :
                \E j \in 1..solved[k].calls_before : calls[j].attr = x

(***************************************************************************)
(* C26: after a run on a model with a cycle C, every attribute outside C   *)
(* that depends on C, directly or transitively, holds the value of its     *)
(* calculate function applied to the final values of its declared          *)
(* dependencies, and that value appears in calculated_values.              *)
(***************************************************************************)
DependentsOutside(run, cycle) ==
    (RegisteredOfType(run.blocks, "calculated")
        \cap ReachableFrom(run.graph, Range(cycle))) \ Range(cycle)

FinalValues(bs, attr) ==
    [d \in Range(attr.dependencies) |-> _find_attribute_by_id(bs, d).value]

HoldsFunctionOfFinalValues(bs, id) ==
    LET attr == _find_attribute_by_id(bs, id)
        out == calculation_logic(attr.calculation_logic, attr.dependencies,
                                 FinalValues(bs, attr))
    IN  /\ ~out.raised
        /\ ~IsNone(attr.value)
        /\ attr.value = out.value

C26_Case ==
    /\ HasReturned
    /\ ReturnsNumbers(run_start.blocks)
    /\ InputsNonNull(run_start.blocks)
    /\ DOMAIN run_start.overrides = {}
    /\ \A id \in RegisteredIds(run_start.blocks) :
           \A d \in Range(_find_attribute_by_id(run_start.blocks, id).dependencies) :
               d \in RegisteredIds(run_start.blocks)

C26_DependentsOfCycleRecomputed ==
    C26_Case =>
        \A k \in 1..Len(solved) :
            \A x \in DependentsOutside(run_start, solved[k].cycle) \ OnCycle(run_start.graph) :
                /\ HoldsFunctionOfFinalValues(blocks, x)
                /\ x \in DOMAIN LastRun.calculated_values
                /\ LastRun.calculated_values[x] = _find_attribute_by_id(blocks, x).value

(***************************************************************************)
(* C27: in each solver iteration the calculate function of every cycle     *)
(* attribute is invoked exactly once, so the history of each attribute     *)
(* grows by exactly one entry per iteration.                               *)
(***************************************************************************)
IterateCallsOf(k, id) ==
    {j \in (solved[k].calls_before + 1)..Len(calls) :
        /\ calls[j].phase = "iterate"
        /\ calls[j].attr = id
        /\ \A i \in (solved[k].calls_before + 1)..j : calls[i].phase = "iterate"}

C27_OnceEachIteration ==
    (HasReturned /\ NoCallRaisedOrReturnedNull(LastRun)) =>
        \A k \in 1..Len(solved) :
            \A id \in Range(solved[k].cycle) :
                /\ Cardinality(IterateCallsOf(k, id)) = solved[k].iterations
                /\ Len(HistoryOf(solved[k].history, id)) = solved[k].iterations

(***************************************************************************)
(* C28: the solver stops by convergence at the end of the first iteration  *)
(* in which every evaluation changed its value by at most 5% relative to   *)
(* max(|previous|, 1e-6) and no evaluation raised; it never declares       *)
(* convergence after an iteration with a change above 5%; and on a         *)
(* convergence stop the cycle values are left as last computed, without    *)
(* averaging.                                                              *)
(***************************************************************************)
\* the index in calls of the evaluation at position p of iteration i of solve k
IterationCall(k, i, p) == solved[k].calls_before + (i - 1) * Len(solved[k].cycle) + p

\* the value attribute id holds just before call j of solve k
ValueBefore(k, id, j) ==
    LET stored == {i \in (solved[k].calls_before + 1)..(j - 1) :
                      calls[i].attr = id /\ ~calls[i].raised /\ ~IsNone(calls[i].value)}
    IN  IF stored = {} THEN solved[k].start[id]
        ELSE calls[CHOOSE m \in stored : \A o \in stored : o <= m].value

WithinFivePercent(new, prev) ==
    IF prev = 0 THEN new = 0 ELSE 100 * Abs(new - prev) <= 5 * Abs(prev)

QuietEvaluation(k, j) ==
    /\ ~calls[j].raised
    /\ ~IsNone(calls[j].value)
    /\ WithinFivePercent(calls[j].value[1], ValueBefore(k, calls[j].attr, j)[1])

QuietIteration(k, i) ==
    \A p \in 1..Len(solved[k].cycle) : QuietEvaluation(k, IterationCall(k, i, p))

IterationsAreLogged(k) ==
    \A i \in 1..solved[k].iterations : \A p \in 1..Len(solved[k].cycle) :
        /\ IterationCall(k, i, p) <= Len(calls)
        /\ calls[IterationCall(k, i, p)].phase = "iterate"
        /\ calls[IterationCall(k, i, p)].attr = solved[k].cycle[p]

C28_ConvergenceStop ==
    AtReturn =>
        \A k \in 1..Len(solved) :
            /\ IterationsAreLogged(k)
            /\ \A i \in 1..(solved[k].iterations - 1) : ~QuietIteration(k, i)
            /\ solved[k].stop = "converged" <=>
                   (solved[k].iterations >= 1 /\ QuietIteration(k, solved[k].iterations))
            /\ solved[k].stop = "converged" =>
                   \A id \in Range(solved[k].cycle) :
                       solved[k].resolved[id]
                           = ValueBefore(k, id, IterationCall(k, solved[k].iterations,
                                                              Len(solved[k].cycle)) + 1)

C28_Witness ==
    /\ HasReturned
    /\ Len(solved) = 1
    /\ solved[1].stop = "converged"
    /\ solved[1].iterations >= 2
    /\ Cardinality(Range(solved[1].cycle)) = 2
    /\ \A id \in Range(solved[1].cycle) :
           /\ Len(HistoryOf(solved[1].history, id)) >= 2
           /\ solved[1].resolved[id] # solved[1].start[id]

(***************************************************************************)
(* C29: the oscillation check is applied from the 4th iteration on: if at  *)
(* the end of the 4th iteration, which did not converge, some attribute    *)
(* has at least four history entries whose last four satisfy               *)
(* |h[-1] - h[-3]| < 0.1 and |h[-2] - h[-4]| < 0.1, the solver declares    *)
(* oscillation and stops at iteration 4.                                   *)
(***************************************************************************)
\* the history of attribute id at the end of iteration i of solve k
HistoryAfter(k, id, i) ==
    LET evaluated == SelectSeq(SubSeq(calls, solved[k].calls_before + 1,
                                      IterationCall(k, i, Len(solved[k].cycle))),
                               LAMBDA c : c.attr = id /\ ~c.raised)
    IN  [n \in 1..Len(evaluated) |-> evaluated[n].value]

OscillationPattern(h) ==
    /\ Len(h) >= 4
    /\ \A n \in (Len(h) - 3)..Len(h) : ~IsNone(h[n])
    /\ Abs(h[Len(h)][1] - h[Len(h) - 2][1]) < 10
    /\ Abs(h[Len(h) - 1][1] - h[Len(h) - 3][1]) < 10

C29_Case(k) ==
    /\ solved[k].iterations >= 4
    /\ ~QuietIteration(k, 4)
    /\ \E id \in Range(solved[k].cycle) : OscillationPattern(HistoryAfter(k, id, 4))

C29_OscillationStopsAtFourth ==
    (HasReturned /\ NoCallRaisedOrReturnedNull(LastRun)) =>
        \A k \in 1..Len(solved) :
            C29_Case(k) => (solved[k].stop = "oscillation" /\ solved[k].iterations = 4)

(***************************************************************************)
(* C30: whatever the calculate functions do, return or raise, the solver   *)
(* performs at most 10 iterations over a cycle and then proceeds to the    *)
(* post-cycle step; when neither convergence nor oscillation stops it, the *)
(* cycle attributes keep the values computed in the 10th iteration, and    *)
(* the run does not end in an error status.                                *)
(***************************************************************************)
\* the calls made for solve k after Step 3
CallsAfterIterating(k) ==
    (IterationCall(k, solved[k].iterations, Len(solved[k].cycle)) + 1)
        ..(IF k < Len(solved) THEN solved[k + 1].calls_before ELSE Len(calls))

PostCycleDependents(run, cycle) ==
    {x \in RegisteredOfType(run.blocks, "calculated") \ Range(cycle) :
        Range(_find_attribute_by_id(run.blocks, x).dependencies) \cap Range(cycle) # {}}

\* IterationCall finds an evaluation by its position in the cycle: every member of
\* the cycle is an attribute the solver evaluates, one that has a function
EveryMemberIsEvaluated(k) ==
    \A id \in Range(solved[k].cycle) :
        _find_attribute_by_id(run_start.blocks, id).calculation_logic # "absent"

C30_Logged(k) ==
    /\ IterationsAreLogged(k)
    /\ \A j \in CallsAfterIterating(k) : calls[j].phase # "iterate"
    /\ \A x \in PostCycleDependents(run_start, solved[k].cycle) :
           \E j \in CallsAfterIterating(k) : calls[j].phase = "post" /\ calls[j].attr = x
    /\ solved[k].stop = "exhausted" =>
           /\ \A i \in 1..10 : ~QuietIteration(k, i)
           /\ \A id \in Range(solved[k].cycle) :
                  solved[k].resolved[id]
                      = ValueBefore(k, id, IterationCall(k, 10, Len(solved[k].cycle)) + 1)

C30_Solve(k) ==
    /\ solved[k].iterations <= 10
    /\ solved[k].stop \in {"converged", "oscillation", "exhausted"}
    /\ solved[k].stop = "exhausted" => solved[k].iterations = 10
    /\ EveryMemberIsEvaluated(k) => C30_Logged(k)

C30_AtMostTenIterations ==
    (HasReturned /\ ReturnsNumbersOrRaises(run_start.blocks)) =>
        /\ LastRun.status \in {"completed", "validation_failed"}
        /\ Len(solved) = Len(detected)
        /\ \A k \in 1..Len(solved) : C30_Solve(k)

C30_Witness ==
    /\ HasReturned
    /\ Len(solved) >= 1
    /\ solved[1].stop = "exhausted"
    /\ solved[1].iterations = 10
    /\ \E id \in Range(solved[1].cycle) :
           /\ Len(HistoryOf(solved[1].history, id)) = 10
           /\ solved[1].resolved[id] = HistoryOf(solved[1].history, id)[10]
           /\ solved[1].resolved[id] # HistoryOf(solved[1].history, id)[9]
    /\ \E j \in 1..Len(calls) : calls[j].phase = "iterate" /\ calls[j].raised
    /\ LastRun.status = "completed"

(***************************************************************************)
(* C31: when the solver evaluates a cycle attribute within an iteration,   *)
(* the context handed to its function holds the most recent non-null value *)
(* of the attributes of the model, the values assigned to other cycle      *)
(* attributes earlier in the same iteration included (no snapshot taken at *)
(* the start of the iteration).  The log of a call keeps the part of the   *)
(* context that lies on the declared dependencies.                         *)
(***************************************************************************)
\* the solve and the iteration an index of calls belongs to
IterationCalls(k) ==
    (solved[k].calls_before + 1)
        ..IterationCall(k, solved[k].iterations, Len(solved[k].cycle))

MostRecentValue(k, d, j) ==
    IF d \in Range(solved[k].cycle) THEN ValueBefore(k, d, j) ELSE ValueIn(solved[k].start, d)

C31_Call(k, j) ==
    \A d \in Range(_find_attribute_by_id(run_start.blocks, calls[j].attr).dependencies) :
        /\ d \in DOMAIN calls[j].given <=> ~IsNone(MostRecentValue(k, d, j))
        /\ d \in DOMAIN calls[j].given => calls[j].given[d] = MostRecentValue(k, d, j)

C31_ContextIsCurrent ==
    AtReturn =>
        \A k \in 1..Len(solved) :
            EveryMemberIsEvaluated(k) =>
                IterationsAreLogged(k) /\ \A j \in IterationCalls(k) : C31_Call(k, j)

\* the third evaluation of the second iteration reads what the second one has
\* just stored
C31_Witness ==
    /\ AtReturn
    /\ Len(solved) = 1
    /\ solved[1].iterations >= 2
    /\ Len(solved[1].cycle) = 3
    /\ LET second == IterationCall(1, 2, 2)
           d == solved[1].cycle[2]
       IN  /\ ~calls[second].raised /\ ~IsNone(calls[second].value)
           /\ calls[second].value # ValueBefore(1, d, second)
           /\ d \in DOMAIN calls[second + 1].given
           /\ calls[second + 1].given[d] = calls[second].value
    /\ C31_Call(1, IterationCall(1, 2, 3))

(***************************************************************************)
(* C32: before the first iteration the seed step assigns a value only to   *)
(* the cycle attributes whose value is null: 50.0 if the id contains       *)
(* 'selling_price', else 1000 if it contains 'market_demand', else 100.0.  *)
(* A cycle attribute with a non-null value, from an override or an earlier *)
(* run, keeps it, and no attribute outside the cycle is seeded.            *)
(***************************************************************************)
\* the calls of phase made between the iterations of solve k - 1 (the start of
\* the run for k = 1) and those of solve k that stored a value of id
StoredBetween(k, id, phase) ==
    {j \in (IF k = 1 THEN 1
            ELSE IterationCall(k - 1, solved[k - 1].iterations, Len(solved[k - 1].cycle)) + 1)
               ..solved[k].calls_before :
        calls[j].phase = phase /\ calls[j].attr = id /\ ~calls[j].raised}

\* the value of id the solver finds when it is handed cycle k: what Initialize
\* left, or what the solve before left, its post-cycle step included
EntryValue(k, id) ==
    IF k = 1 THEN ValueIn(CurrentValues(Initialized(LastRun)), id)
    ELSE IF StoredBetween(k, id, "post") = {} THEN ValueIn(solved[k - 1].resolved, id)
    ELSE calls[CHOOSE j \in StoredBetween(k, id, "post") : TRUE].value

C32_SeedOf(id) ==
    IF id = "selling_price" THEN 5000 ELSE IF id = "market_demand" THEN 100000 ELSE 10000

C32_Solve(k) ==
    /\ solved[k].seeded \subseteq Range(solved[k].cycle)
    /\ \A id \in Range(solved[k].cycle) :
           IF IsNone(EntryValue(k, id))
           THEN id \in solved[k].seeded /\ solved[k].start[id] = Num(C32_SeedOf(id))
           ELSE id \notin solved[k].seeded /\ solved[k].start[id] = EntryValue(k, id)
    /\ \A id \in RegisteredIds(run_start.blocks) \ Range(solved[k].cycle) :
           ValueIn(solved[k].start, id)
               = IF StoredBetween(k, id, "pre") = {} THEN EntryValue(k, id)
                 ELSE calls[CHOOSE j \in StoredBetween(k, id, "pre") : TRUE].value

C32_SeedsOnlyNullCycleAttributes ==
    AtReturn => \A k \in 1..Len(solved) : C32_Solve(k)

C32_Witness ==
    /\ AtReturn
    /\ Len(solved) = 1
    /\ Range(solved[1].cycle) = {"selling_price", "market_demand"}
    /\ "selling_price" \in DOMAIN run_start.overrides
    /\ solved[1].seeded = {"market_demand"}
    /\ solved[1].start["selling_price"] = run_start.overrides["selling_price"]
    /\ solved[1].start["market_demand"] = Num(100000)
    /\ "total" \in RegisteredIds(run_start.blocks)
    /\ "total" \notin DOMAIN solved[1].start
    /\ C32_Solve(1)

(***************************************************************************)
(* C33: when oscillation is declared, every attribute of the cycle is      *)
(* assigned the mean of its last (up to 4) history entries rounded to 2    *)
(* decimals, and the solver executes no further iteration.  The mean is    *)
(* that of an attribute that has history entries.                          *)
(***************************************************************************)
\* v is total / n rounded to the nearest hundredth
IsRoundedMean(v, h) ==
    LET recent == LastN(h, 4)
        total == SumSeq([i \in 1..Len(recent) |-> recent[i][1]])
    IN  /\ ~IsNone(v)
        /\ 2 * Abs(Len(recent) * v[1] - total) <= Len(recent)

C33_Solve(k) ==
    /\ IterationsAreLogged(k)
    /\ \A j \in CallsAfterIterating(k) : calls[j].phase # "iterate"
    /\ \A id \in Range(solved[k].cycle) :
           HistoryOf(solved[k].history, id) # <<>>
               => IsRoundedMean(solved[k].resolved[id], HistoryOf(solved[k].history, id))

C33_OscillationAverages ==
    AtReturn => \A k \in 1..Len(solved) : solved[k].stop = "oscillation" => C33_Solve(k)

\* the mean differs from the value computed last
C33_Witness ==
    /\ AtReturn
    /\ Len(solved) = 1
    /\ solved[1].stop = "oscillation"
    /\ Cardinality(Range(solved[1].cycle)) = 2
    /\ \A id \in Range(solved[1].cycle) :
           LET h == HistoryOf(solved[1].history, id)
           IN  /\ Len(h) >= 4
               /\ solved[1].resolved[id] # h[Len(h)]
               /\ IsRoundedMean(solved[1].resolved[id], h)

(***************************************************************************)
(* C34: the pre-cycle step never invokes the function of an attribute when *)
(* one of its declared, registered dependencies has no value in the        *)
(* pre-cycle context; in particular an attribute that depends on an        *)
(* attribute skipped by the pre-cycle step is itself skipped.              *)
(***************************************************************************)
C34_PreCycleSkipsUnsatisfied ==
    AtReturn =>
        \A j \in 1..Len(calls) :
            calls[j].phase = "pre" =>
                \A d \in Range(_find_attribute_by_id(run_start.blocks,
                                                     calls[j].attr).dependencies)
                            \cap RegisteredIds(run_start.blocks) :
                    d \in DOMAIN calls[j].given /\ ~IsNone(calls[j].given[d])

(***************************************************************************)
(* C35: a Calculated attribute may declare a dependency on an attribute of *)
(* a different block, and a run evaluates it from that attribute's value   *)
(* whatever the order in which the two blocks were passed to add_block:    *)
(* the result of the run does not depend on the registration order.        *)
(***************************************************************************)
\* the first run of the same blocks registered in the opposite order
RegisteredInReverse ==
    run_simulation(add_blocks(<<>>, NewGraph, Reverse(user_blocks)).blocks,
                   add_blocks(<<>>, NewGraph, Reverse(user_blocks)).graph,
                   EmptyDict, set_order)

\* two blocks, all registered, with a dependency across them; the functions
\* return numbers, the inputs have values, and no dependency cycle is declared
C35_Case ==
    /\ AtReturn
    /\ Len(results) = 1
    /\ Len(user_blocks) = 2
    /\ Len(blocks) = 2
    /\ DOMAIN run_start.overrides = {}
    /\ ReturnsNumbers(blocks)
    /\ InputsNonNull(run_start.blocks)
    /\ ~HasDirectedCycle(DeclaredGraph(run_start.blocks))
    /\ \A id \in RegisteredIds(run_start.blocks) :
           Range(_find_attribute_by_id(run_start.blocks, id).dependencies)
               \subseteq RegisteredIds(run_start.blocks)

C35_RegistrationOrderIsIrrelevant ==
    C35_Case =>
        /\ LastRun.status = RegisteredInReverse.state.status
        /\ LastRun.calculated_values = RegisteredInReverse.state.calculated_values

(***************************************************************************)
(* C36: add_block adds an edge dep -> attr only for the declared           *)
(* dependencies of Calculated attributes that are registered at the time   *)
(* of the call; for any other declared dependency no node and no edge is   *)
(* created, the declared dependencies of the attribute are left unchanged, *)
(* and the call does not fail.                                             *)
(***************************************************************************)
\* v, of block b, declares u, and u is registered when block b is added
EdgeDueTo(bs, b, u, v) ==
    \E k \in 1..Len(bs[b].attributes) :
        /\ bs[b].attributes[k].id = v
        /\ bs[b].attributes[k].attribute_type = "calculated"
        /\ u \in Range(bs[b].attributes[k].dependencies)
        /\ u \in RegisteredIds(SubSeq(bs, 1, b))

C36_Case == pc = "idle" /\ results = <<>>

C36_AddBlockEdges ==
    C36_Case =>
        /\ blocks = SubSeq(user_blocks, 1, Len(blocks))
        /\ dependency_graph.nodes = RegisteredIds(blocks)
        /\ DOMAIN dependency_graph.edges \subseteq dependency_graph.nodes
        /\ DOMAIN dependency_graph.reverse_edges \subseteq dependency_graph.nodes
        /\ \A u, v \in Range(AllIds) :
               /\ v \in Get(dependency_graph.edges, u)
                      <=> \E b \in 1..Len(blocks) : EdgeDueTo(blocks, b, u, v)
               /\ u \in Get(dependency_graph.reverse_edges, v)
                      <=> \E b \in 1..Len(blocks) : EdgeDueTo(blocks, b, u, v)

\* both blocks are added: one dependency was registered in time and has its
\* edge, another is declared and was registered too late
C36_Witness ==
    /\ C36_Case
    /\ Len(blocks) = 2
    /\ \E u, v \in RegisteredIds(blocks) : v \in Get(dependency_graph.edges, u)
    /\ \E u, v \in RegisteredIds(blocks) :
           /\ u \in Range(_find_attribute_by_id(blocks, v).dependencies)
           /\ v \notin Get(dependency_graph.edges, u)
           /\ u \in Range(_find_attribute_by_id(user_blocks, v).dependencies)

(***************************************************************************)
(* C37: find_cycles never returns the same cycle list twice, whichever     *)
(* node the outer loop uses as DFS root and however many roots it starts   *)
(* from.                                                                   *)
(***************************************************************************)
C37_NoCycleListTwice ==
    gcall.op = "find_cycles"
        => \A i, j \in DOMAIN gcall.cycles : gcall.cycles[i] = gcall.cycles[j] => i = j

\* several cycles, and a graph that is not reached from a single root
C37_Witness ==
    /\ gcall.op = "find_cycles"
    /\ Len(gcall.cycles) >= 3
    /\ \E n \in gcall.before.nodes :
           /\ Get(gcall.before.reverse_edges, n) \subseteq {n}
           /\ ReachableFrom(gcall.before, {n}) # gcall.before.nodes
    /\ \A i, j \in DOMAIN gcall.cycles : gcall.cycles[i] = gcall.cycles[j] => i = j

(***************************************************************************)
(* C38: in every reachable state of the DependencyGraph of a simulation,   *)
(* and of the temporary graph built by the pre-cycle step, v is in         *)
(* edges[u] if and only if u is in reverse_edges[v], and both endpoints of *)
(* every edge are in nodes; every mutator keeps the two maps consistent.   *)
(***************************************************************************)
IsConsistent(g) ==
    /\ \A u \in DOMAIN g.edges : \A v \in g.edges[u] :
           u \in g.nodes /\ v \in g.nodes /\ u \in Get(g.reverse_edges, v)
    /\ \A v \in DOMAIN g.reverse_edges : \A u \in g.reverse_edges[v] :
           u \in g.nodes /\ v \in g.nodes /\ v \in Get(g.edges, u)

C38_MapsAreConsistent ==
    /\ IsConsistent(dependency_graph)
    /\ gcall.op = "find_cycles" =>
           \A i \in DOMAIN gcall.cycles :
               /\ \A ord \in Perms(GNodes) :
                      IsConsistent(temp_graph(dependency_graph, Range(gcall.cycles[i]), ord))
               /\ IsConsistent(_apply_cycle_resolution(dependency_graph, gcall.cycles[i],
                                                       "break_weakest_dependency"))

\* the temporary graph keeps some edges and leaves out those of the cycle, and
\* the broken dependency is gone from both maps
C38_Witness ==
    /\ gcall.op = "find_cycles"
    /\ EdgeCount(dependency_graph) >= 4
    /\ \E i \in DOMAIN gcall.cycles : \E ord \in Perms(GNodes) :
           /\ Len(gcall.cycles[i]) = 3
           /\ EdgeCount(temp_graph(dependency_graph, Range(gcall.cycles[i]), ord)) = 2
           /\ IsConsistent(temp_graph(dependency_graph, Range(gcall.cycles[i]), ord))
           /\ EdgeCount(_apply_cycle_resolution(dependency_graph, gcall.cycles[i],
                                                "break_weakest_dependency"))
                  = EdgeCount(dependency_graph) - 1

(***************************************************************************)
(* C40: find_cycles, topological_sort and a whole run are read-only on the *)
(* dependency graph: nodes, edges and reverse_edges, the key sets of the   *)
(* two edge maps included, are the same afterwards as before, so the       *)
(* dependency_relationships of get_simulation_summary() do not change.     *)
(***************************************************************************)
\* get_simulation_summary()['dependency_relationships']
dependency_relationships(g) == Cardinality(DOMAIN g.edges)

C40_GraphReadOnly ==
    gcall.op \in {"find_cycles", "topological_sort"} =>
        /\ dependency_graph = gcall.before
        /\ dependency_relationships(dependency_graph) = dependency_relationships(gcall.before)

\* C39: during a run and when it returns, every Input attribute holds the value it
\* had when the run began, or the scenario override initialize_simulation assigned
\* to it (to the attribute _find_attribute_by_id returns for the overridden id);
\* no later node changes the value of an Input attribute
IsFirstOfItsId(all, i) == \A j \in 1..(i - 1) : all[j].id # all[i].id

ValueAfterInitialize(all, overrides, i) ==
    IF all[i].id \in DOMAIN overrides /\ IsFirstOfItsId(all, i)
    THEN overrides[all[i].id] ELSE all[i].value

C39_InputsChangeOnlyInInitialize ==
    (pc # "idle" \/ AtReturn) =>
        LET before == AllAttributes(run_start.blocks)
            now == AllAttributes(blocks)
        IN  \A i \in 1..Len(before) :
                before[i].attribute_type = "input" =>
                    now[i].value = ValueAfterInitialize(before, run_start.overrides, i)

\* every result is what run_simulation, as a function, returns
RunIsFunction ==
    HasReturned =>
        /\ LastRun.status
               = run_simulation(run_start.blocks, run_start.graph, run_start.overrides,
                                set_order).state.status
        /\ LastRun.has_values =>
               LastRun.calculated_values
                   = run_simulation(run_start.blocks, run_start.graph, run_start.overrides,
                                    set_order).state.calculated_values

====
